---- MODULE Spec2Model ----
(***************************************************************************)
(* A model of StratisQL: the predicate compiler (buildWhereClause), the    *)
(* update compiler (applyUpdateOperators), the aggregation pipeline, the   *)
(* CRUD verbs of the facade and the transaction wrapper (withTransaction)  *)
(* over a driver with a connection pool.                                   *)
(***************************************************************************)
EXTENDS Integers, Sequences, FiniteSets, TLC

VARIABLES
    filter,     \* SpecWhere: the filter handed to buildWhereClause
    dialect,    \* the string returned by driver.getDialect()
    where,      \* SpecWhere: the {clause, params} returned (or the throw)
    wpc,        \* SpecWhere: "input" before the call, "compiled" after
    uDoc0,      \* SpecUpdate: the starting document, by value
    uDoc,       \* SpecUpdate: the caller's document object (arrays by reference)
    uSpec,      \* SpecUpdate: the update specification
    uHeap,      \* SpecUpdate: the arrays in memory, by address
    uOut,       \* SpecUpdate: the document returned by the last call
    upc,        \* SpecUpdate: "input", "once", "twice": calls made so far
    store,      \* the collection's table: [exists, rows, autoInc]
    call,       \* the last facade call: its verb and arguments
    ret,        \* what the last facade call returned or raised
    pc,         \* withTransaction: where the call stands
    pool,       \* the connections checked out of the pool, by who took them
    pending,    \* the rows written on the session's connection, not committed
    txLog,      \* the driver methods withTransaction has called, in order
    caught,     \* the failure the catch block of withTransaction received
    raised,     \* the failure withTransaction raised to its caller
    snap,       \* the rows of the collection when the transaction started
    fnWrites,   \* the facade write verbs the work function has completed
    pipeline,   \* SpecAggregate: the pipeline handed to aggregate
    aggOut,     \* SpecAggregate: what aggregate returned or raised
    apc,        \* SpecAggregate: "input" before the call, "done" after
    procs,      \* SpecMany: each concurrent caller's verb and where it stands
    observed,   \* SpecMany: the rows a concurrent reader's find returned
    validators, \* collectionSchemas: the schema registered for the collection
    inserted    \* SpecRound: the document the caller handed to insertOne

whereVars == <<filter, dialect, where, wpc>>
updateVars == <<uDoc0, uDoc, uSpec, uHeap, uOut, upc>>
dbVars == <<store, call, ret>>
txVars == <<pc, pool, pending, txLog, caught, raised, snap, fnWrites>>
aggVars == <<pipeline, aggOut, apc>>
conVars == <<procs, observed>>
regVars == <<validators>>
rtVars == <<inserted>>
vars == <<whereVars, updateVars, dbVars, txVars, aggVars, conVars, regVars, rtVars>>

(***************************************************************************)
(* Bounds of the model.                                                    *)
(***************************************************************************)
MaxOperand == 2     \* operands of comparisons range over 1..MaxOperand
MaxListLen == 2     \* longest operand list of $in/$nin, $or/$and
MaxArrLen == 3      \* longest array held by a field of a starting document
MaxOps == 2         \* most operators in one update specification
MaxInserts == 2     \* most rows inserted into the collection in one run
MaxFnWrites == 2    \* most facade writes made by one work function
MaxStages == 3      \* longest aggregation pipeline
MaxRows == 2        \* most rows of a collection handed to aggregate
MaxPage == 2        \* largest page size asked of findWithCursor
MaxReads == 2       \* most finds made by one concurrent reader

(***************************************************************************)
(* JSON values.  Every value is a record of one shape, so that any two     *)
(* values can be compared: t is the JavaScript type, n the number, items   *)
(* the own enumerable properties in insertion order (for an array the      *)
(* indices "0", "1", ... with their elements).                             *)
(***************************************************************************)
Entry(k, v) == [k |-> k, v |-> v]
Num(n) == [t |-> "num", n |-> n, items |-> <<>>]
Null == [t |-> "null", n |-> 0, items |-> <<>>]
Undefined == [t |-> "undef", n |-> 0, items |-> <<>>]
\* the string made of the decimal digits of n: '1', '2', ...
NumStr(n) == [t |-> "numstr", n |-> n, items |-> <<>>]
Obj(es) == [t |-> "obj", n |-> 0, items |-> es]
IdxKey == <<"0", "1", "2", "3", "4", "5", "6", "7">>
Arr(vs) == [t |-> "arr", n |-> 0,
            items |-> [i \in 1..Len(vs) |-> Entry(IdxKey[i], vs[i])]]
Elems(v) == [i \in 1..Len(v.items) |-> v.items[i].v]

\* Array.isArray(v)
IsArray(v) == v.t = "arr"
\* typeof v === 'object'  (null and arrays included)
TypeofObject(v) == v.t \in {"obj", "arr", "null"}

(***************************************************************************)
(* SQL text.  A clause is kept as the tree of the templates that built it; *)
(* Tokens renders the tree to the token sequence of the emitted string.    *)
(* A placeholder token carries (as a ghost) the operand it was emitted     *)
(* for, and a path token the dialect form parseKey chose.                  *)
(***************************************************************************)
Node(k, key, form, op, vs, sub) ==
    [k |-> k, key |-> key, form |-> form, op |-> op, vs |-> vs, sub |-> sub]
\* `${parseKey(key)} <op> ?`
Cmp(key, form, op, v) == Node("cmp", key, form, op, <<v>>, <<>>)
\* `${parseKey(key)} IN (?, ?, ...)`
InList(key, form, op, vs) == Node("in", key, form, op, vs, <<>>)
\* `NOT (${c})`
Not(c) == Node("not", "", "", "NOT", <<>>, <<c>>)
\* `(${c})`
Paren(c) == Node("paren", "", "", "", <<>>, <<c>>)
\* cs.join(` ${sep} `)
Join(sep, cs) == Node("join", "", "", sep, <<>>, cs)
EmptyClause == Join("AND", <<>>)

Tok(s) == [s |-> s, key |-> "", form |-> "", v |-> Null]
PathTok(key, form) == [s |-> "path", key |-> key, form |-> form, v |-> Null]
PhTok(v) == [s |-> "?", key |-> "", form |-> "", v |-> v]

RECURSIVE PhList(_, _)
\* "?, ?, ..., ?" for the operands vs[i..]
PhList(vs, i) ==
    IF i > Len(vs) THEN <<>>
    ELSE <<PhTok(vs[i])>> \o (IF i < Len(vs) THEN <<Tok(",")>> ELSE <<>>)
         \o PhList(vs, i + 1)

RECURSIVE Tokens(_), JoinTokens(_, _, _)
JoinTokens(sep, cs, i) ==
    IF i > Len(cs) THEN <<>>
    ELSE Tokens(cs[i]) \o (IF i < Len(cs) THEN <<Tok(sep)>> ELSE <<>>)
         \o JoinTokens(sep, cs, i + 1)
Tokens(c) ==
    CASE c.k = "cmp" -> <<PathTok(c.key, c.form), Tok(c.op), PhTok(c.vs[1])>>
      [] c.k = "in" -> <<PathTok(c.key, c.form), Tok(c.op), Tok("(")>>
                       \o PhList(c.vs, 1) \o <<Tok(")")>>
      [] c.k = "not" -> <<Tok("NOT"), Tok("(")>> \o Tokens(c.sub[1]) \o <<Tok(")")>>
      [] c.k = "paren" -> <<Tok("(")>> \o Tokens(c.sub[1]) \o <<Tok(")")>>
      [] c.k = "join" -> JoinTokens(c.op, c.sub, 1)

\* a JavaScript string is truthy iff it is not empty
Truthy(c) == Tokens(c) # <<>>

\* the operands of the placeholders of a clause, left to right
Placeholders(c) ==
    LET ph == SelectSeq(Tokens(c), LAMBDA t : t.s = "?")
    IN [i \in 1..Len(ph) |-> ph[i].v]

(***************************************************************************)
(* buildWhereClause (utils/helpers.ts).  A result is {clause, params}, or  *)
(* threw = TRUE when the call raised (a TypeError).                        *)
(***************************************************************************)
Ret(c, ps) == [clause |-> c, params |-> ps, threw |-> FALSE]
Threw == [clause |-> EmptyClause, params |-> <<>>, threw |-> TRUE]

parseKey(key, d) == IF d = "postgres" THEN "pg" ELSE "mysql"

CmpOps == {"$eq", "$ne", "$gt", "$gte", "$lt", "$lte"}
CmpSym(op) ==
    CASE op = "$eq" -> "=" [] op = "$ne" -> "<>" [] op = "$gt" -> ">"
      [] op = "$gte" -> ">=" [] op = "$lt" -> "<" [] op = "$lte" -> "<="

RECURSIVE parseCondition(_, _, _), parseOps(_, _, _, _)
\* the `for (const op in value)` loop from its i-th operator on: the
\* subClauses pushed, the params pushed, or the throw
parseOps(key, value, i, d) ==
    IF i > Len(value.items) THEN [subs |-> <<>>, params |-> <<>>, threw |-> FALSE]
    ELSE
      LET op == value.items[i].k
          arg == value.items[i].v
          here ==
            IF op \in CmpOps
            THEN [subs |-> <<Cmp(key, parseKey(key, d), CmpSym(op), arg)>>,
                  params |-> <<arg>>, threw |-> FALSE]
            ELSE IF op \in {"$in", "$nin"}
            THEN IF IsArray(arg)
                 THEN [subs |-> <<InList(key, parseKey(key, d),
                                         IF op = "$in" THEN "IN" ELSE "NOT IN",
                                         Elems(arg))>>,
                       params |-> Elems(arg), threw |-> FALSE]
                 \* value[op].map is not a function
                 ELSE [subs |-> <<>>, params |-> <<>>, threw |-> TRUE]
            ELSE IF op = "$not"
            THEN LET r == parseCondition(key, arg, d)
                 IN [subs |-> <<Not(r.clause)>>, params |-> r.params,
                     threw |-> r.threw]
            ELSE [subs |-> <<>>, params |-> <<>>, threw |-> FALSE]
      IN IF here.threw THEN [subs |-> <<>>, params |-> <<>>, threw |-> TRUE]
         ELSE LET rest == parseOps(key, value, i + 1, d)
              IN IF rest.threw THEN rest
                 ELSE [subs |-> here.subs \o rest.subs,
                       params |-> here.params \o rest.params,
                       threw |-> FALSE]

parseCondition(key, value, d) ==
    IF value.t = "obj"
    THEN LET r == parseOps(key, value, 1, d)
         IN IF r.threw THEN Threw ELSE Ret(Join("AND", r.subs), r.params)
    ELSE Ret(Cmp(key, parseKey(key, d), "=", value), <<value>>)

RECURSIVE buildWhereClause(_, _), buildKeys(_, _, _), mapConds(_, _, _)
\* filter[key].map(cond => `(${buildWhereClause(cond, dialect).clause})`)
\* from the i-th element on; only the clause of each result is used
mapConds(conds, i, d) ==
    IF i > Len(conds) THEN [subs |-> <<>>, threw |-> FALSE]
    ELSE LET r == buildWhereClause(conds[i], d)
         IN IF r.threw THEN [subs |-> <<>>, threw |-> TRUE]
            ELSE LET rest == mapConds(conds, i + 1, d)
                 IN IF rest.threw THEN rest
                    ELSE [subs |-> <<Paren(r.clause)>> \o rest.subs,
                          threw |-> FALSE]

\* the `for (const key in filter)` loop from its i-th key on
buildKeys(f, i, d) ==
    IF i > Len(f.items) THEN [subs |-> <<>>, params |-> <<>>, threw |-> FALSE]
    ELSE
      LET key == f.items[i].k
          val == f.items[i].v
          here ==
            IF key \in {"$or", "$and"} /\ IsArray(val)
            THEN LET m == mapConds(Elems(val), 1, d)
                 IN [subs |-> <<Paren(Join(IF key = "$or" THEN "OR" ELSE "AND",
                                           m.subs))>>,
                     params |-> <<>>, threw |-> m.threw]
            ELSE IF key = "$not" /\ TypeofObject(val)
            THEN LET r == buildWhereClause(val, d)
                 IN [subs |-> <<Not(r.clause)>>, params |-> <<>>,
                     threw |-> r.threw]
            ELSE LET r == parseCondition(key, val, d)
                 IN [subs |-> IF Truthy(r.clause) THEN <<r.clause>> ELSE <<>>,
                     params |-> r.params, threw |-> r.threw]
      IN IF here.threw THEN [subs |-> <<>>, params |-> <<>>, threw |-> TRUE]
         ELSE LET rest == buildKeys(f, i + 1, d)
              IN IF rest.threw THEN rest
                 ELSE [subs |-> here.subs \o rest.subs,
                       params |-> here.params \o rest.params,
                       threw |-> FALSE]

\* for-in over null, undefined or a number visits nothing
buildWhereClause(f, d) ==
    LET r == buildKeys(f, 1, d)
    IN IF r.threw THEN Threw ELSE Ret(Join("AND", r.subs), r.params)

(***************************************************************************)
(* Documents.  A stored document is a JSON text, kept here by value: a     *)
(* function from the field names to values, Undefined for a field the      *)
(* document does not have.  A document in memory holds its arrays by       *)
(* reference: Ref(a) is the array at address a of the heap, and a heap is  *)
(* the sequence of the arrays allocated so far.                            *)
(***************************************************************************)
Fields == {"id", "age", "roles"}
FieldSeq == <<"id", "age", "roles">>
Ref(a) == [t |-> "ref", n |-> a, items |-> <<>>]
\* the string String(parts[1]) + String(parts[2]) + ..., kept unevaluated
Str(parts) == [t |-> "str", n |-> 0,
               items |-> [i \in 1..Len(parts) |-> Entry("", parts[i])]]

\* the value behind a reference
Deep(v, heap) == IF v.t = "ref" THEN Arr(heap[v.n]) ELSE v
\* JSON.stringify(doc), as the value it denotes
JSONstringify(doc, heap) == [f \in Fields |-> Deep(doc[f], heap)]

RECURSIVE ParseFrom(_, _, _, _)
ParseFrom(text, i, doc, heap) ==
    IF i > Len(FieldSeq) THEN [doc |-> doc, heap |-> heap]
    ELSE LET f == FieldSeq[i]
         IN IF text[f].t = "arr"
            THEN ParseFrom(text, i + 1, [doc EXCEPT ![f] = Ref(Len(heap) + 1)],
                           Append(heap, Elems(text[f])))
            ELSE ParseFrom(text, i + 1, doc, heap)
\* JSON.parse(text): a fresh object whose arrays are fresh
JSONparse(text, heap) == ParseFrom(text, 1, text, heap)

\* obj[k], Undefined when obj has no property k
Get(obj, k) ==
    IF \E i \in 1..Len(obj.items) : obj.items[i].k = k
    THEN obj.items[CHOOSE i \in 1..Len(obj.items) : obj.items[i].k = k].v
    ELSE Undefined
\* the truthiness of a value
IsTruthy(v) == v.t \in {"obj", "arr", "ref", "str"} \/ (v.t = "num" /\ v.n # 0)

(***************************************************************************)
(* applyUpdateOperators (crud/crud.ts).  A state of the call is the        *)
(* `updated` object and the heap.                                          *)
(***************************************************************************)
\* updated = { ...updated, ...update.$set }
SetStep(st, k, v) == [st EXCEPT !.doc[k] = v]

\* a variant that stores the operand instead of adding it
Plus_overwrite(cur, inc, heap) == inc
\* (updated[k] || 0) + update.$inc[k]
Plus(cur, inc, heap) ==
    LET base == IF IsTruthy(cur) THEN cur ELSE Num(0)
    IN CASE base.t = "num" -> Num(base.n + inc.n)
         [] base.t = "ref" -> Str(<<Arr(heap[base.n]), inc>>)
         [] base.t = "str" -> Str(Elems(base) \o <<inc>>)
IncStep(st, k, v) == [st EXCEPT !.doc[k] = Plus(st.doc[k], v, st.heap)]

\* if (!Array.isArray(updated[k])) updated[k] = []; updated[k].push(v)
PushStep(st, k, v) ==
    IF st.doc[k].t = "ref"
    THEN [st EXCEPT !.heap[st.doc[k].n] = Append(@, v)]
    ELSE [doc |-> [st.doc EXCEPT ![k] = Ref(Len(st.heap) + 1)],
          heap |-> Append(st.heap, <<v>>)]

\* if (Array.isArray(updated[k])) updated[k] = updated[k].filter(x => x !== v)
PullStep(st, k, v) ==
    IF st.doc[k].t = "ref"
    THEN [doc |-> [st.doc EXCEPT ![k] = Ref(Len(st.heap) + 1)],
          heap |-> Append(st.heap,
                          SelectSeq(st.heap[st.doc[k].n], LAMBDA x : x # v))]
    ELSE st

Step(op, st, k, v) ==
    CASE op = "$set" -> SetStep(st, k, v)
      [] op = "$inc" -> IncStep(st, k, v)
      [] op = "$push" -> PushStep(st, k, v)
      [] op = "$pull" -> PullStep(st, k, v)

RECURSIVE ForIn(_, _, _, _)
\* for (const k in update[op]) ..., from the i-th key on
ForIn(op, m, i, st) ==
    IF i > Len(m.items) THEN st
    ELSE ForIn(op, m, i + 1, Step(op, st, m.items[i].k, m.items[i].v))

\* if (update[op]) { ... }
ApplyOp(op, update, st) ==
    IF IsTruthy(Get(update, op)) THEN ForIn(op, Get(update, op), 1, st) ELSE st

RECURSIVE ApplyInKeyOrder(_, _, _)
\* a variant that applies the operators in the order of the keys of the spec
ApplyInKeyOrder(update, i, st) ==
    IF i > Len(update.items) THEN st
    ELSE ApplyInKeyOrder(update, i + 1,
                         IF update.items[i].k \in {"$set", "$inc", "$push", "$pull"}
                         THEN ForIn(update.items[i].k, update.items[i].v, 1, st)
                         ELSE st)
applyUpdateOperators_keyOrder(doc, update, heap) ==
    ApplyInKeyOrder(update, 1, [doc |-> doc, heap |-> heap])

\* the returned document and the heap after the call; { ...doc } copies the
\* fields of doc, so an array of doc is shared with the copy
applyUpdateOperators(doc, update, heap) ==
    ApplyOp("$pull", update,
      ApplyOp("$push", update,
        ApplyOp("$inc", update,
          ApplyOp("$set", update, [doc |-> doc, heap |-> heap]))))

(***************************************************************************)
(* The relational engine behind driver.query.  A table is the sequence of  *)
(* its rows in primary-key order, each row the stored document.  The       *)
(* engine runs a statement by its evident meaning: a comparison on a path  *)
(* that yields no number, or against an operand that is no number, is      *)
(* unknown (SQL NULL), and a row is selected when the WHERE clause is true.*)
(***************************************************************************)
\* the value the path-extraction expression reads
PathValue(doc, key) == IF key \in Fields THEN doc[key] ELSE Undefined

Neg3(b) == CASE b = "T" -> "F" [] b = "F" -> "T" [] OTHER -> "N"
And3(a, b) == IF a = "F" \/ b = "F" THEN "F" ELSE IF a = "T" /\ b = "T" THEN "T" ELSE "N"
Or3(a, b) == IF a = "T" \/ b = "T" THEN "T" ELSE IF a = "F" /\ b = "F" THEN "F" ELSE "N"
Bool3(b) == IF b THEN "T" ELSE "F"
Compare(op, x, y) ==
    CASE op = "=" -> x = y [] op = "<>" -> x # y [] op = ">" -> x > y
      [] op = ">=" -> x >= y [] op = "<" -> x < y [] op = "<=" -> x <= y

\* the number of '?' of a clause
NPh(c) == Len(Placeholders(c))

RECURSIVE Eval3(_, _, _, _), EvalJoin(_, _, _, _, _)
\* the clause c on a row, its placeholders bound to params[off + 1 ..]
Eval3(c, params, off, doc) ==
    CASE c.k = "cmp" ->
           LET x == PathValue(doc, c.key)
               y == params[off + 1]
           IN IF x.t \in {"num", "numstr"} /\ y.t \in {"num", "numstr"}
              THEN Bool3(Compare(c.op, x.n, y.n))
              ELSE "N"
      [] c.k = "in" ->
           LET x == PathValue(doc, c.key)
               hit == \E i \in 1..Len(c.vs) : params[off + i] = x
               unknown == \E i \in 1..Len(c.vs) : params[off + i].t # "num"
               isIn == IF x.t # "num" THEN "N"
                       ELSE IF hit THEN "T" ELSE IF unknown THEN "N" ELSE "F"
           IN IF c.op = "IN" THEN isIn ELSE Neg3(isIn)
      [] c.k = "not" -> Neg3(Eval3(c.sub[1], params, off, doc))
      [] c.k = "paren" -> Eval3(c.sub[1], params, off, doc)
      [] c.k = "join" -> EvalJoin(c, 1, params, off, doc)
EvalJoin(c, i, params, off, doc) ==
    LET here == Eval3(c.sub[i], params, off, doc)
    IN IF i = Len(c.sub) THEN here
       ELSE LET rest == EvalJoin(c, i + 1, params, off + NPh(c.sub[i]), doc)
            IN IF c.op = "OR" THEN Or3(here, rest) ELSE And3(here, rest)

RECURSIVE WellFormed(_)
\* the clause text parses: no "()", no "IN ()", nothing missing around AND/OR
WellFormed(c) ==
    CASE c.k = "cmp" -> TRUE
      [] c.k = "in" -> Len(c.vs) > 0
      [] c.k \in {"not", "paren"} -> Truthy(c.sub[1]) /\ WellFormed(c.sub[1])
      [] c.k = "join" -> /\ Len(c.sub) > 0
                         /\ \A i \in 1..Len(c.sub) : Truthy(c.sub[i]) /\ WellFormed(c.sub[i])

\* the decimal digits of a natural number
RECURSIVE Digits(_)
Digits(n) == IF n < 10 THEN <<n>> ELSE Append(Digits(n \div 10), n % 10)
RECURSIVE LexLess(_, _, _)
LexLess(a, b, i) ==
    IF i > Len(b) THEN FALSE
    ELSE IF i > Len(a) THEN TRUE
    ELSE IF a[i] # b[i] THEN a[i] < b[i]
    ELSE LexLess(a, b, i + 1)
\* ORDER BY compares the unquoted JSON text of the values: digits sort before
\* '[' and letters; a missing or null value is the SQL NULL
IsSqlNull(v) == v.t \in {"undef", "null"}
TextRank(v) == CASE v.t = "num" -> 1 [] v.t = "arr" -> 2 [] OTHER -> 3
TextLess(a, b) ==
    IF a.t = "num" /\ b.t = "num" THEN LexLess(Digits(a.n), Digits(b.n), 1)
    ELSE TextRank(a) < TextRank(b)
\* a sorts before b under ORDER BY <key> ASC: MySQL puts NULL first,
\* PostgreSQL last
AscLess(a, b, d) ==
    IF IsSqlNull(a) \/ IsSqlNull(b)
    THEN IF d = "postgres" THEN ~IsSqlNull(a) /\ IsSqlNull(b)
         ELSE IsSqlNull(a) /\ ~IsSqlNull(b)
    ELSE TextLess(a, b)

RECURSIVE RowLess(_, _, _, _, _)
\* row a sorts strictly before row b under the sort keys sort[i..]
RowLess(a, b, sort, i, d) ==
    IF i > Len(sort) THEN FALSE
    ELSE LET x == PathValue(a, sort[i].k)
             y == PathValue(b, sort[i].k)
             lt == IF sort[i].dir = "ASC" THEN AscLess(x, y, d) ELSE AscLess(y, x, d)
             gt == IF sort[i].dir = "ASC" THEN AscLess(y, x, d) ELSE AscLess(x, y, d)
         IN IF lt THEN TRUE ELSE IF gt THEN FALSE ELSE RowLess(a, b, sort, i + 1, d)

RECURSIVE InsertSorted(_, _, _, _), OrderBy(_, _, _)
InsertSorted(r, sorted, sort, d) ==
    IF sorted = <<>> THEN <<r>>
    ELSE IF RowLess(r, Head(sorted), sort, 1, d) THEN <<r>> \o sorted
    ELSE <<Head(sorted)>> \o InsertSorted(r, Tail(sorted), sort, d)
\* rows in ORDER BY order; rows that compare equal keep their table order
OrderBy(rs, sort, d) ==
    IF rs = <<>> THEN <<>>
    ELSE InsertSorted(rs[Len(rs)], OrderBy(SubSeq(rs, 1, Len(rs) - 1), sort, d), sort, d)
Min(a, b) == IF a < b THEN a ELSE b

\* a SELECT statement: whether " WHERE " was emitted, and the clause after it
\* with its bound params, the ORDER BY keys, LIMIT and OFFSET (0: not emitted)
Select(hasWhere, clause, params, sort, limit, skip) ==
    [hasWhere |-> hasWhere, where |-> clause, params |-> params, sort |-> sort,
     limit |-> limit, skip |-> skip]

\* the statement is accepted: it parses, every placeholder has a parameter,
\* and OFFSET comes with a LIMIT
Accepted(q) ==
    /\ q.hasWhere => /\ Truthy(q.where) /\ WellFormed(q.where)
                     /\ Len(q.params) >= NPh(q.where)
    /\ q.skip > 0 => q.limit > 0

\* the rows a SELECT returns
RunSelect(rows, q, d) ==
    LET hit == SelectSeq(rows, LAMBDA r : ~q.hasWhere \/ Eval3(q.where, q.params, 0, r) = "T")
        ord == IF q.sort = <<>> THEN hit ELSE OrderBy(hit, q.sort, d)
        from == Min(q.skip, Len(ord)) + 1
        to == IF q.limit > 0 THEN Min(Len(ord), q.skip + q.limit) ELSE Len(ord)
    IN SubSeq(ord, from, to)

(***************************************************************************)
(* The CRUD verbs (crud/crud.ts) on a database db = [exists, rows,         *)
(* autoInc]: whether the collection's table exists, its rows, and the      *)
(* AUTO_INCREMENT counter of its id column.  A verb returns the database   *)
(* after it and what the caller gets: err ("none" when it resolved), the   *)
(* documents, the counts, and the statements it issued.                    *)
(***************************************************************************)
\* a statement sent to the driver: its verb, its WHERE clause, and refs, the
\* path-extraction forms of the field references written outside that clause
Stmt(kind, hasWhere, clause, refs) ==
    [kind |-> kind, hasWhere |-> hasWhere, where |-> clause, refs |-> refs]
\* WHERE JSON_EXTRACT(data, '$.id') = ? of the UPDATE and DELETE statements
RowKeyForms(kind) == IF kind \in {"UPDATE", "DELETE"} THEN <<"mysql">> ELSE <<>>
St(kind, hasWhere, clause) == Stmt(kind, hasWhere, clause, RowKeyForms(kind))
\* ORDER BY of find: JSON_UNQUOTE(JSON_EXTRACT(data, '$.k')) for every field
FindSortForms(sort) == [i \in 1..Len(sort) |-> "mysql"]
Got(err, docs, n, m, stmts) ==
    [err |-> err, docs |-> docs, n |-> n, m |-> m, stmts |-> stmts]
Out(db, got) == [db |-> db, got |-> got]
NoOptions == [sort |-> Obj(<<>>), limit |-> 0, skip |-> 0]

\* Object.entries(options.sort).map(([k, v]) => `... ${v === 1 ? 'ASC' : 'DESC'}`)
SortFields(sort) ==
    [i \in 1..Len(sort.items) |->
        [k |-> sort.items[i].k,
         dir |-> IF sort.items[i].v = Num(1) THEN "ASC" ELSE "DESC"]]

\* a variant that emits " WHERE " whatever the clause
findStatement_alwaysWhere(w, options) ==
    Select(TRUE, w.clause, w.params, SortFields(options.sort),
           options.limit, options.skip)
\* the SELECT built by find from the compiled filter and the options
findStatement(w, options) ==
    Select(Truthy(w.clause), w.clause, w.params, SortFields(options.sort),
           options.limit, options.skip)

\* driver.query(sql, params) of the SELECT q: the rows, or the query failure
query(db, kind, q, d) ==
    IF ~Accepted(q)
    THEN Got("QUERY", <<>>, 0, 0, <<Stmt(kind, q.hasWhere, q.where, FindSortForms(q.sort))>>)
    ELSE Got("none", RunSelect(db.rows, q, d), 0, 0,
             <<Stmt(kind, q.hasWhere, q.where, FindSortForms(q.sort))>>)

\* find from the compiled filter w on
findWhere(db, w, options, d) ==
    IF w.threw THEN Out(db, Got("TypeError", <<>>, 0, 0, <<>>))
    ELSE Out(db, query(db, "SELECT", findStatement(w, options), d))

find(db, f, options, d) ==
    IF ~db.exists THEN Out(db, Got("none", <<>>, 0, 0, <<>>))
    ELSE findWhere(db, buildWhereClause(f, d), options, d)

\* docs[0] || null
First(got) == [got EXCEPT !.docs = SubSeq(got.docs, 1, Min(1, Len(got.docs)))]
findOne(db, f, options, d) ==
    Out(db, First(find(db, f, [options EXCEPT !.limit = 1], d).got))

\* result.insertId || null: MySQL reports the generated id, pg reports none
InsertId(db, d) == IF d = "postgres" THEN 0 ELSE db.autoInc + 1

insertOne(db, doc, d) ==
    LET made == IF db.exists THEN db ELSE [exists |-> TRUE, rows |-> <<>>, autoInc |-> 0]
    IN Out([made EXCEPT !.rows = Append(@, doc), !.autoInc = @ + 1],
           Got("none", <<doc>>, InsertId(made, d), 0, <<St("INSERT", FALSE, EmptyClause)>>))

\* JSON_EXTRACT(data, '$.id') = ?  bound to id
IdIs(row, id) == row["id"].t = "num" /\ id.t = "num" /\ row["id"].n = id.n

\* UPDATE ... SET data = ? WHERE JSON_EXTRACT(data, '$.id') = ?
UpdateWhereId(rows, text, id) ==
    [i \in 1..Len(rows) |-> IF IdIs(rows[i], id) THEN text ELSE rows[i]]
\* DELETE FROM ... WHERE JSON_EXTRACT(data, '$.id') = ?
DeleteWhereId(rows, id) == SelectSeq(rows, LAMBDA r : ~IdIs(r, id))

\* applyUpdateOperators on a document just parsed, stringified again
Updated(text, update) ==
    LET m == JSONparse(text, <<>>)
        r == applyUpdateOperators(m.doc, update, m.heap)
    IN JSONstringify(r.doc, r.heap)

\* updateOne from the result r of its find on
updateFound(db, r, update) ==
    IF r.got.err # "none" THEN r
    ELSE IF r.got.docs = <<>> THEN Out(db, Got("none", <<>>, 0, 0, r.got.stmts))
    ELSE Out([db EXCEPT !.rows = UpdateWhereId(@, Updated(r.got.docs[1], update),
                                               r.got.docs[1]["id"])],
             Got("none", <<r.got.docs[1]>>, 1, 1,
                 r.got.stmts \o <<St("UPDATE", TRUE, EmptyClause)>>))

updateOne(db, f, update, d) ==
    updateFound(db, find(db, f, [NoOptions EXCEPT !.limit = 1], d), update)

RECURSIVE DeleteLoop(_, _, _, _, _)
\* the for loop of deleteMany from docs[i] on, deletedCount rows counted so far
DeleteLoop(rows, docs, i, deletedCount, limit) ==
    IF i > Len(docs) \/ (limit > 0 /\ deletedCount >= limit)
    THEN [rows |-> rows, n |-> deletedCount]
    ELSE DeleteLoop(DeleteWhereId(rows, docs[i]["id"]), docs, i + 1,
                    deletedCount + 1, limit)

\* deleteMany after its loop l over the documents found by r
deleted(db, r, l) ==
    Out([db EXCEPT !.rows = l.rows],
        Got("none", r.got.docs, l.n, 0,
            r.got.stmts \o [i \in 1..l.n |-> St("DELETE", TRUE, EmptyClause)]))

\* deleteMany from the result r of its find on
deleteFound(db, r, limit) ==
    IF r.got.err # "none" THEN r
    ELSE deleted(db, r, DeleteLoop(db.rows, r.got.docs, 1, 0, limit))

deleteMany(db, f, limit, d) ==
    IF ~db.exists THEN Out(db, Got("none", <<>>, 0, 0, <<>>))
    ELSE deleteFound(db, find(db, f, NoOptions, d), limit)

deleteOne(db, f, d) == deleteMany(db, f, 1, d)

\* rows[0]?.count || 0 of SELECT COUNT(*)
Counted(got) == [got EXCEPT !.docs = <<>>, !.n = Len(got.docs)]
\* countDocuments from the compiled filter w on
countWhere(db, w, d) ==
    IF w.threw THEN Out(db, Got("TypeError", <<>>, 0, 0, <<>>))
    ELSE Out(db, Counted(query(db, "COUNT",
                               Select(Truthy(w.clause), w.clause, w.params, <<>>, 0, 0), d)))

countDocuments(db, f, d) ==
    IF ~db.exists THEN Out(db, Got("none", <<>>, 0, 0, <<>>))
    ELSE countWhere(db, buildWhereClause(f, d), d)

(***************************************************************************)
(* The filters the compiler is run on: every operator, well formed and     *)
(* malformed operands, combinators nested to depth two.                    *)
(***************************************************************************)
Operands == {Num(i) : i \in 1..MaxOperand}
SeqsUpTo(S, n) == UNION {[1..m -> S] : m \in 0..n}
F1(k, v) == Obj(<<Entry(k, v)>>)
F2(k1, v1, k2, v2) == Obj(<<Entry(k1, v1), Entry(k2, v2)>>)

OperatorMaps ==
    {F1(op, v) : op \in CmpOps \cup {"$regex"}, v \in Operands}
    \cup {F2("$gte", a, "$lte", b) : a \in Operands, b \in Operands}
    \cup {F1(op, Arr(s)) : op \in {"$in", "$nin"}, s \in SeqsUpTo(Operands, MaxListLen)}
    \cup {F1(op, v) : op \in {"$in", "$nin"}, v \in {Num(1), Null}}
    \cup {F1("$not", v) : v \in {Num(1), F1("$gt", Num(1)), F1("$in", Num(1)),
                                 F1("$in", Arr(<<Num(1), Num(2)>>))}}
FieldValues == Operands \cup {Null, Arr(<<Num(1)>>)} \cup OperatorMaps
FewValues == {Num(1), F1("$gt", Num(1)), F1("$in", Arr(<<Num(1), Num(2)>>)),
              F1("$regex", Num(1))}
FlatFilters ==
    {Obj(<<>>)}
    \cup {F1(k, v) : k \in {"age", "id"}, v \in FieldValues}
    \cup {F2("age", v, "id", w) : v \in FewValues, w \in FewValues}
\* the elements of a combinator's list
Conds == {Null, Obj(<<>>), F1("age", Num(1)), F1("id", F1("$gt", Num(2))),
          F1("age", F1("$in", Arr(<<Num(1), Num(2)>>))), F1("age", F1("$in", Num(1)))}
CombinatorFilters ==
    {F1(c, Arr(s)) : c \in {"$or", "$and"}, s \in SeqsUpTo(Conds, MaxListLen)}
    \cup {F1(c, v) : c \in {"$or", "$and"}, v \in {Num(1), F1("age", Num(1))}}
    \cup {F1("$not", v) : v \in Conds \cup {Num(1)}}
NestedFilters ==
    {F2("age", Num(2), c, Arr(<<F1("id", Num(1))>>)) : c \in {"$or", "$and"}}
    \cup {F2(c, Arr(<<F1("id", Num(1))>>), "age", Num(2)) : c \in {"$or", "$and"}}
    \cup {F1("$or", Arr(<<F1("$and", Arr(<<F1("age", Num(1)), F1("id", Num(2))>>)),
                          F1("$not", F1("age", Num(2)))>>)),
          F1("$not", F1("$or", Arr(<<F1("age", Num(1)), F1("id", Num(2))>>)))}
Filters == FlatFilters \cup CombinatorFilters \cup NestedFilters
Dialects == {"mysql", "postgres"}

(***************************************************************************)
(* SpecWhere: buildWhereClause applied to one filter.                      *)
(***************************************************************************)
NoDoc == [f \in Fields |-> Undefined]
IdleWhere ==
    /\ filter = Obj(<<>>)
    /\ where = Ret(EmptyClause, <<>>)
    /\ wpc = "idle"
IdleUpdate ==
    /\ uDoc0 = NoDoc /\ uDoc = NoDoc /\ uOut = NoDoc
    /\ uSpec = Obj(<<>>)
    /\ uHeap = <<>>
    /\ upc = "idle"

NoTable == [exists |-> FALSE, rows |-> <<>>, autoInc |-> 0]
Call(op, f, options) ==
    [op |-> op, filter |-> f, sort |-> options.sort, limit |-> options.limit,
     skip |-> options.skip]
NoCall == Call("none", Obj(<<>>), NoOptions)
IdleDb ==
    /\ store = NoTable
    /\ call = NoCall
    /\ ret = Got("none", <<>>, 0, 0, <<>>)
NoPool == [session |-> 0, connect |-> 0]
IdleTx ==
    /\ pc = "idle"
    /\ pool = NoPool
    /\ pending = <<>>
    /\ txLog = <<>>
    /\ caught = "none"
    /\ raised = "none"
    /\ snap = <<>>
    /\ fnWrites = 0
IdleAgg ==
    /\ pipeline = <<>>
    /\ aggOut = Got("none", <<>>, 0, 0, <<>>)
    /\ apc = "idle"
IdleMany ==
    /\ procs = <<>>
    /\ observed = <<>>
\* new Map(): no schema registered
IdleReg == validators = Null
IdleRound == inserted = NoDoc

InitWhere ==
    /\ filter \in Filters
    /\ dialect \in Dialects
    /\ where = Ret(EmptyClause, <<>>)
    /\ wpc = "input"
    /\ IdleUpdate
    /\ IdleDb
    /\ IdleTx
    /\ IdleAgg
    /\ IdleMany
    /\ IdleReg
    /\ IdleRound

Compile ==
    /\ wpc = "input"
    /\ where' = buildWhereClause(filter, dialect)
    /\ wpc' = "compiled"
    /\ UNCHANGED <<filter, dialect, updateVars, dbVars, txVars, aggVars, conVars, regVars, rtVars>>

NextWhere == Compile
SpecWhere == InitWhere /\ [][NextWhere]_vars

\* does the filter nest a combinator that compiles its elements recursively
HasCombinator(f) ==
    \E i \in 1..Len(f.items) :
        \/ f.items[i].k \in {"$or", "$and"} /\ IsArray(f.items[i].v)
        \/ f.items[i].k = "$not" /\ TypeofObject(f.items[i].v)

\* C4: for every filter, nested combinators included, the params returned by
\* buildWhereClause are exactly the operands of the '?' placeholders of the
\* returned clause, one per placeholder, in left-to-right order.
C4_ParamsMatchPlaceholders ==
    (wpc = "compiled" /\ ~where.threw) => where.params = Placeholders(where.clause)

\* C6: buildWhereClause never throws, whatever the filter: it returns a
\* (clause, params) pair.
C6_NeverThrows == wpc = "compiled" => ~where.threw

(***************************************************************************)
(* SpecUpdate: applyUpdateOperators applied to a starting document, and    *)
(* then once more to the document it returned.                             *)
(***************************************************************************)
UOperands == {Num(1), Num(2)}
\* the arrays <<>>, <<1>>, <<1, 2>>, <<1, 2, 1>>, ...
ArrayOf(n) == Arr([i \in 1..n |-> Num(1 + ((i - 1) % 2))])
UValues == {Undefined, Null, Num(0), Num(1)} \cup {ArrayOf(n) : n \in 0..MaxArrLen}
UDocs == {[id |-> Num(1), age |-> a, roles |-> r] : a \in UValues, r \in UValues}
UpdateOps == {"$set", "$inc", "$push", "$pull"}
OpSeqs == {os \in SeqsUpTo(UpdateOps, MaxOps) :
             \A i \in 1..Len(os) : \A j \in 1..Len(os) : i # j => os[i] # os[j]}
UArgs == [f : {"age", "roles"}, v : UOperands]
UpdateSpecs ==
    UNION {{Obj([i \in 1..Len(os) |-> Entry(os[i], F1(args[i].f, args[i].v))]) :
              args \in [1..Len(os) -> UArgs]} : os \in OpSeqs}

InitUpdate ==
    /\ uDoc0 \in UDocs
    /\ uSpec \in UpdateSpecs
    /\ uDoc = JSONparse(uDoc0, <<>>).doc
    /\ uHeap = JSONparse(uDoc0, <<>>).heap
    /\ uOut = uDoc
    /\ upc = "input"
    /\ dialect = "mysql"
    /\ IdleWhere
    /\ IdleDb
    /\ IdleTx
    /\ IdleAgg
    /\ IdleMany
    /\ IdleReg
    /\ IdleRound

\* updated = applyUpdateOperators(doc, update): first on the caller's
\* document, then on the document the first call returned
ApplyUpdate ==
    /\ upc \in {"input", "once"}
    /\ LET r == applyUpdateOperators(IF upc = "input" THEN uDoc ELSE uOut,
                                     uSpec, uHeap)
       IN /\ uOut' = r.doc
          /\ uHeap' = r.heap
    /\ upc' = IF upc = "input" THEN "once" ELSE "twice"
    /\ UNCHANGED <<uDoc0, uDoc, uSpec, whereVars, dbVars, txVars, aggVars, conVars, regVars, rtVars>>

NextUpdate == ApplyUpdate
SpecUpdate == InitUpdate /\ [][NextUpdate]_vars

\* the value returned for the starting document and the update u
ResultOf(text, u) ==
    LET m == JSONparse(text, <<>>)
        r == applyUpdateOperators(m.doc, u, m.heap)
    IN JSONstringify(r.doc, r.heap)
\* the specification holding only the operator op of u
Only(u, op) == Obj(SelectSeq(u.items, LAMBDA e : e.k = op))
\* the keys of u in another order
Permuted(u, p) == Obj([i \in 1..Len(u.items) |-> u.items[p[i]]])
HasOp(u, op) == \E i \in 1..Len(u.items) : u.items[i].k = op

\* C7: the operators are applied in the order $set, $inc, $push, $pull: the
\* result equals the sequential application in that order, is the same for
\* every permutation of the keys of the update, and holds no element equal to
\* v in a field that the update both pushes v to and pulls v from.
C7_FixedOperatorOrder ==
    upc = "once" =>
      LET out == JSONstringify(uOut, uHeap)
      IN /\ out = ResultOf(ResultOf(ResultOf(ResultOf(uDoc0, Only(uSpec, "$set")),
                                             Only(uSpec, "$inc")),
                                    Only(uSpec, "$push")),
                           Only(uSpec, "$pull"))
         /\ \A p \in Permutations(1..Len(uSpec.items)) :
                ResultOf(uDoc0, Permuted(uSpec, p)) = out
         /\ \A k \in Fields : \A v \in UOperands :
                (/\ Get(Get(uSpec, "$push"), k) = v
                 /\ Get(Get(uSpec, "$pull"), k) = v)
                => (out[k].t = "arr" /\ \A i \in 1..Len(out[k].items) : out[k].items[i].v # v)

\* C7 witness: an update whose keys put $pull before $push, on the same field
\* and value, has been applied to a document holding that value in the field
C7_Witness ==
    /\ upc = "once"
    /\ Len(uSpec.items) = 2
    /\ uSpec.items[1].k = "$pull" /\ uSpec.items[2].k = "$push"
    /\ uSpec.items[1].v = F1("roles", Num(1))
    /\ uSpec.items[2].v = F1("roles", Num(1))
    /\ uDoc0["roles"] = ArrayOf(2)
    /\ JSONstringify(uOut, uHeap)["roles"] = Arr(<<Num(2)>>)

\* C8: applyUpdateOperators is a pure transform: after the call the input
\* document is deep-equal to what it was before the call, its arrays included.
C8_InputUnchanged ==
    upc = "once" => JSONstringify(uDoc, uHeap) = uDoc0

\* the number a field starts from: 0 when the field is absent (or null)
StartOf(v) == IF v.t = "num" THEN v.n ELSE 0
\* the elements a field starts from: none unless the field is a sequence
BaseOf(v) == IF v.t = "arr" THEN Elems(v) ELSE <<>>

\* C9: for an update combining $inc {f: k} and $push {g: v} on disjoint fields
\* f and g, applying it twice in sequence to a starting document (f a number,
\* or absent) yields f = start + 2k and g with two more elements v appended.
C9_TwiceAddsTwice ==
    upc = "twice" =>
      \A f \in Fields : \A g \in Fields : \A k \in UOperands : \A v \in UOperands :
        (/\ f # g
         /\ Len(uSpec.items) = 2
         /\ Get(uSpec, "$inc") = F1(f, k)
         /\ Get(uSpec, "$push") = F1(g, v)
         /\ uDoc0[f].t \in {"num", "undef", "null"})
        => /\ JSONstringify(uOut, uHeap)[f] = Num(StartOf(uDoc0[f]) + 2 * k.n)
           /\ JSONstringify(uOut, uHeap)[g] = Arr(BaseOf(uDoc0[g]) \o <<v, v>>)

\* C9 witness: $inc {age: 2} and $push {roles: 1} applied twice to a document
\* with age 1 and roles [1, 2] gave age 5 and roles [1, 2, 1, 1]
C9_Witness ==
    /\ upc = "twice"
    /\ Len(uSpec.items) = 2
    /\ Get(uSpec, "$inc") = F1("age", Num(2))
    /\ Get(uSpec, "$push") = F1("roles", Num(1))
    /\ uDoc0["age"] = Num(1) /\ uDoc0["roles"] = ArrayOf(2)
    /\ JSONstringify(uOut, uHeap)["age"] = Num(5)
    /\ JSONstringify(uOut, uHeap)["roles"] = Arr(<<Num(1), Num(2), Num(1), Num(1)>>)

(***************************************************************************)
(* findWithCursor (crud/crud.ts).  The options are the destructured ones:  *)
(* cursorField, cursorValue, limit, reverse and count, no sort given.      *)
(***************************************************************************)
HasKey(obj, k) == \E i \in 1..Len(obj.items) : obj.items[i].k = k
\* { ...obj, [k]: v }: the key keeps its place when obj has it already
Spread(obj, k, v) ==
    IF HasKey(obj, k)
    THEN Obj([i \in 1..Len(obj.items) |->
                IF obj.items[i].k = k THEN Entry(k, v) ELSE obj.items[i]])
    ELSE Obj(Append(obj.items, Entry(k, v)))

\* the filter handed to find: the caller's, with the cursor condition spread in
cursorFilter(f, o) ==
    IF o.cursorValue.t \in {"undef", "null"} THEN f
    ELSE Spread(f, o.cursorField, F1(IF o.reverse THEN "$lt" ELSE "$gt", o.cursorValue))

\* the options handed to find: sort = { [cursorField]: reverse ? -1 : 1 }
cursorOptions(o) ==
    [sort |-> F1(o.cursorField, Num(IF o.reverse THEN 0 - 1 ELSE 1)),
     limit |-> o.limit, skip |-> 0]

\* a variant that reports a cursor also after a partial page
nextCursor_always(data, o) ==
    IF Len(data) > 0 THEN PathValue(data[Len(data)], o.cursorField) ELSE Undefined
\* data.length === limit ? data[data.length - 1]?.[cursorField] : undefined
nextCursor(data, o) ==
    IF Len(data) = o.limit /\ Len(data) > 0
    THEN PathValue(data[Len(data)], o.cursorField)
    ELSE Undefined

\* { data, nextCursor, totalCount }
Page(got, next, total) ==
    [err |-> got.err, docs |-> got.docs, n |-> got.n, m |-> got.m, stmts |-> got.stmts,
     nextCursor |-> next, totalCount |-> total]

\* findWithCursor from the result r of its find and the result c of the
\* countDocuments it makes when count is set
paged(db, r, c, o) ==
    IF r.got.err # "none" THEN Out(db, Page(r.got, Undefined, Undefined))
    ELSE IF ~o.count THEN Out(db, Page(r.got, nextCursor(r.got.docs, o), Undefined))
    ELSE IF c.got.err # "none"
         THEN Out(db, Page([c.got EXCEPT !.stmts = r.got.stmts \o @], Undefined, Undefined))
    ELSE Out(db, Page([r.got EXCEPT !.stmts = @ \o c.got.stmts],
                      nextCursor(r.got.docs, o), Num(c.got.n)))

findWithCursor(db, f, o, d) ==
    paged(db, find(db, cursorFilter(f, o), cursorOptions(o), d), countDocuments(db, f, d), o)

(***************************************************************************)
(* Spec: one caller using the CRUD verbs of the facade, one call at a time.*)
(***************************************************************************)
CrudDocs ==
    {[id |-> Num(i), age |-> Num(a), roles |-> Arr(<<Num(1)>>)] : i \in 1..2, a \in 1..2}
CrudFilters ==
    {Obj(<<>>), F1("id", Num(1)), F1("age", F1("$gt", Num(1))),
     F1("$or", Arr(<<F1("id", Num(1)), F1("id", Num(2))>>)),
     F1("age", F1("$in", Null))}
CrudOptions ==
    {NoOptions, [NoOptions EXCEPT !.skip = 1],
     [sort |-> F1("age", Num(-1)), limit |-> 1, skip |-> 0]}
CrudUpdates ==
    {F1("$set", F1("age", Num(1))), F1("$pull", F1("roles", Num(1)))}

Init ==
    /\ dialect \in Dialects
    /\ store = NoTable
    /\ call = NoCall
    /\ ret = Got("none", <<>>, 0, 0, <<>>)
    /\ IdleWhere
    /\ IdleUpdate
    /\ IdleTx
    /\ IdleAgg
    /\ IdleMany
    /\ IdleReg
    /\ IdleRound

\* the caller gets r.got, and the database is as the verb left it
Answer(op, f, options, r) ==
    /\ store' = r.db
    /\ call' = Call(op, f, options)
    /\ ret' = r.got
    /\ UNCHANGED <<whereVars, updateVars, aggVars, conVars, regVars, rtVars>>

Returns(op, f, options, r) ==
    /\ Answer(op, f, options, r)
    /\ UNCHANGED txVars

InsertOne ==
    \E doc \in CrudDocs :
        /\ store.autoInc < MaxInserts
        /\ Returns("insertOne", Obj(<<>>), NoOptions, insertOne(store, doc, dialect))

Find ==
    \E f \in CrudFilters : \E o \in CrudOptions :
        Returns("find", f, o, find(store, f, o, dialect))

UpdateOne ==
    \E f \in CrudFilters : \E u \in CrudUpdates :
        Returns("updateOne", f, NoOptions, updateOne(store, f, u, dialect))

DeleteOne ==
    \E f \in CrudFilters :
        Returns("deleteOne", f, NoOptions, deleteOne(store, f, dialect))

DeleteMany ==
    \E f \in CrudFilters :
        Returns("deleteMany", f, NoOptions, deleteMany(store, f, 0, dialect))

CountDocuments ==
    \E f \in CrudFilters :
        Returns("countDocuments", f, NoOptions, countDocuments(store, f, dialect))

Next ==
    \/ InsertOne
    \/ Find
    \/ UpdateOne
    \/ DeleteOne
    \/ DeleteMany
    \/ CountDocuments
Spec == Init /\ [][Next]_vars

\* the two sequences hold the same documents, each as many times
SameDocs(a, b) ==
    /\ Len(a) = Len(b)
    /\ \A x \in {a[i] : i \in 1..Len(a)} :
          Cardinality({i \in 1..Len(a) : a[i] = x})
            = Cardinality({i \in 1..Len(b) : b[i] = x})

EmptyFilterCall(op) ==
    /\ call'.op = op
    /\ call'.filter = Obj(<<>>)
    /\ call'.limit = 0 /\ call'.skip = 0

\* C5: the filter with no entries compiles to an empty clause and no params,
\* and find, countDocuments and deleteMany with it emit no WHERE and select
\* every document of the collection.
C5_EmptyFilterSelectsAll ==
    [][/\ ~Truthy(buildWhereClause(Obj(<<>>), dialect).clause)
       /\ buildWhereClause(Obj(<<>>), dialect).params = <<>>
       /\ EmptyFilterCall("find") =>
            /\ ret'.err = "none"
            /\ SameDocs(ret'.docs, store.rows)
            /\ \A i \in 1..Len(ret'.stmts) : ~ret'.stmts[i].hasWhere
       /\ EmptyFilterCall("countDocuments") =>
            /\ ret'.err = "none"
            /\ ret'.n = Len(store.rows)
            /\ \A i \in 1..Len(ret'.stmts) : ~ret'.stmts[i].hasWhere
       /\ EmptyFilterCall("deleteMany") =>
            /\ ret'.err = "none"
            /\ ret'.docs = store.rows
            /\ \A i \in 1..Len(ret'.stmts) :
                  ret'.stmts[i].kind = "SELECT" => ~ret'.stmts[i].hasWhere
      ]_vars

\* C5 witness: find with the empty filter returned both rows of a collection
\* of two documents
C5_Witness ==
    /\ call.op = "find" /\ call.filter = Obj(<<>>) /\ call.limit = 0 /\ call.skip = 0
    /\ Len(store.rows) = 2
    /\ ret.docs = store.rows
    /\ ret.stmts = <<St("SELECT", FALSE, EmptyClause)>>

\* ---------------------------------------------------------------------------
\* SpecPage: one call of findWithCursor on a collection
\* ---------------------------------------------------------------------------
CursorFilters == {Obj(<<>>), F1("age", F1("$gt", Num(1)))}
PageOptions ==
    [cursorField : {"id", "age"}, cursorValue : {Undefined, Num(1)}, limit : 1..MaxPage,
     reverse : BOOLEAN, count : BOOLEAN]
\* a findWithCursor call: the caller's filter and options
CursorCall(f, o) ==
    [op |-> "findWithCursor", filter |-> f, sort |-> Obj(<<>>), limit |-> o.limit, skip |-> 0,
     cursorField |-> o.cursorField, cursorValue |-> o.cursorValue, reverse |-> o.reverse,
     count |-> o.count]
PageStores ==
    {NoTable} \cup
    {[exists |-> TRUE, rows |-> rs, autoInc |-> Len(rs)] :
        rs \in UNION {[1..n -> CrudDocs] : n \in 0..MaxRows}}

InitPage ==
    /\ dialect \in Dialects
    /\ store \in PageStores
    /\ call = NoCall
    /\ ret = Got("none", <<>>, 0, 0, <<>>)
    /\ IdleWhere
    /\ IdleUpdate
    /\ IdleTx
    /\ IdleAgg
    /\ IdleMany
    /\ IdleReg
    /\ IdleRound

FindWithCursor ==
    \E f \in CursorFilters : \E o \in PageOptions :
        /\ call.op = "none"
        /\ store' = findWithCursor(store, f, o, dialect).db
        /\ call' = CursorCall(f, o)
        /\ ret' = findWithCursor(store, f, o, dialect).got
        /\ UNCHANGED <<whereVars, updateVars, txVars, aggVars, conVars, regVars, rtVars>>

NextPage == FindWithCursor
SpecPage == InitPage /\ [][NextPage]_vars

\* the documents the cursor condition and the caller's filter select, the
\* page of the last findWithCursor call drawn from them
Selected == find(store, cursorFilter(call.filter, call), NoOptions, dialect).got.docs

\* C13: findWithCursor with page size L returns the cursor-field value of the
\* last returned document as nextCursor when the page holds exactly L
\* documents, and an undefined nextCursor when it holds fewer.
C13_NextCursorOfFullPage ==
    (call.op = "findWithCursor" /\ ret.err = "none") =>
        /\ Len(ret.docs) <= call.limit
        /\ Len(ret.docs) = call.limit =>
              ret.nextCursor = ret.docs[Len(ret.docs)][call.cursorField]
        /\ Len(ret.docs) < call.limit => ret.nextCursor = Undefined

\* C13 witness: a page of two out of two documents came with the id of its
\* last document as nextCursor
C13_Witness ==
    /\ call.op = "findWithCursor" /\ ret.err = "none"
    /\ call.limit = 2 /\ call.cursorField = "id" /\ Len(ret.docs) = 2
    /\ ret.nextCursor = ret.docs[2].id
    /\ ret.nextCursor # Undefined

\* C14: findWithCursor returns a defined nextCursor only when at least one
\* more matching document lies after the returned page.
C14_NextCursorOnlyIfMore ==
    (call.op = "findWithCursor" /\ ret.err = "none" /\ ret.nextCursor # Undefined) =>
        Len(Selected) > Len(ret.docs)

\* ---------------------------------------------------------------------------
\* withTransaction over the MySQL driver
\* ---------------------------------------------------------------------------

PoolLimit == 10

CheckedOut == pool.session + pool.connect

\* the collection of the Quick Start, after its first insertOne
TxAlice == [id |-> Num(1), age |-> Num(1), roles |-> Arr(<<Num(1)>>)]
TxBob == [id |-> Num(2), age |-> Num(2), roles |-> Arr(<<Num(1)>>)]
TxSeed == insertOne(NoTable, TxAlice, "mysql").db

InitTxn ==
    /\ dialect = "mysql"
    /\ store \in {NoTable, TxSeed}
    /\ call = NoCall
    /\ ret = Got("none", <<>>, 0, 0, <<>>)
    /\ IdleWhere
    /\ IdleUpdate
    /\ IdleTx
    /\ IdleAgg
    /\ IdleMany
    /\ IdleReg
    /\ IdleRound

Count(log, m) == Cardinality({i \in 1..Len(log) : log[i] = m})

\* const session = await driver.startSession(), outside the try block:
\* getConnection waits for a free connection, and either await can fail
StartSession ==
    /\ pc \in {"idle", "done"}
    /\ CheckedOut < PoolLimit
    /\ pending' = <<>>
    /\ caught' = "none"
    /\ fnWrites' = 0
    /\ snap' = store.rows
    /\ txLog' = <<"startSession">>
    /\ \/ /\ pc' = "done"               \* pool.getConnection() rejected
          /\ raised' = "connect"
          /\ pool' = pool
       \/ /\ pc' = "done"               \* conn.beginTransaction() rejected
          /\ raised' = "begin"
          /\ pool' = [pool EXCEPT !.session = @ + 1]
       \/ /\ pc' = "fn"
          /\ raised' = "none"
          /\ pool' = [pool EXCEPT !.session = @ + 1]
    /\ UNCHANGED <<whereVars, updateVars, dbVars, aggVars, conVars, regVars, rtVars>>

\* a facade write verb called by the work function: it passes no session, so
\* the driver runs it on pool.query, which needs a free connection
FacadeWrite(op, f, r) ==
    /\ pc = "fn"
    /\ fnWrites < MaxFnWrites
    /\ CheckedOut < PoolLimit
    /\ Answer(op, f, NoOptions, r)
    /\ fnWrites' = IF r.got.err = "none" THEN fnWrites + 1 ELSE fnWrites
    /\ UNCHANGED <<pc, pool, pending, txLog, caught, raised, snap>>

FnInsertOne ==
    /\ store.autoInc + Len(pending) < MaxInserts
    /\ FacadeWrite("insertOne", Obj(<<>>), insertOne(store, TxBob, dialect))

FnUpdateOne ==
    FacadeWrite("updateOne", F1("id", Num(1)),
                updateOne(store, F1("id", Num(1)), F1("$pull", F1("roles", Num(1))), dialect))

FnDeleteOne ==
    FacadeWrite("deleteOne", F1("id", Num(1)), deleteOne(store, F1("id", Num(1)), dialect))

\* driver.query(sql, params, session) called by the work function: an INSERT
\* on the session's own connection, inside the open transaction
FnSessionQuery ==
    /\ pc = "fn"
    /\ store.exists
    /\ store.autoInc + Len(pending) < MaxInserts
    /\ pending' = Append(pending, TxBob)
    /\ UNCHANGED <<pc, pool, txLog, caught, raised, snap, fnWrites>>
    /\ UNCHANGED <<whereVars, updateVars, dbVars, aggVars, conVars, regVars, rtVars>>

\* const result = await fn(session) resolved
FnReturns ==
    /\ pc = "fn"
    /\ pc' = "commit"
    /\ UNCHANGED <<pool, pending, txLog, caught, raised, snap, fnWrites>>
    /\ UNCHANGED <<whereVars, updateVars, dbVars, aggVars, conVars, regVars, rtVars>>

\* await fn(session) rejected: control enters the catch block
FnRaises ==
    /\ pc = "fn"
    /\ pc' = "rollback"
    /\ caught' = "work"
    /\ UNCHANGED <<pool, pending, txLog, raised, snap, fnWrites>>
    /\ UNCHANGED <<whereVars, updateVars, dbVars, aggVars, conVars, regVars, rtVars>>

\* await driver.commit(session)
Commit ==
    /\ pc = "commit"
    /\ txLog' = Append(txLog, "commit")
    /\ \/ /\ pc' = "release"
          /\ store' = [store EXCEPT !.rows = @ \o pending,
                                    !.autoInc = @ + Len(pending)]
          /\ pending' = <<>>
          /\ caught' = caught
       \/ /\ pc' = "rollback"           \* conn.commit() rejected
          /\ caught' = "commit"
          /\ UNCHANGED <<store, pending>>
    /\ UNCHANGED <<pool, raised, snap, fnWrites>>
    /\ UNCHANGED <<whereVars, updateVars, call, ret, aggVars, conVars, regVars, rtVars>>

\* catch (err) { await driver.rollback(session); throw err; }
Rollback ==
    /\ pc = "rollback"
    /\ txLog' = Append(txLog, "rollback")
    /\ pc' = "release"
    /\ \/ /\ pending' = <<>>
          /\ raised' = caught
       \/ /\ raised' = "rollback"       \* conn.rollback() rejected
          /\ pending' = pending
    /\ UNCHANGED <<pool, caught, snap, fnWrites>>
    /\ UNCHANGED <<whereVars, updateVars, dbVars, aggVars, conVars, regVars, rtVars>>

\* finally { await driver.release(session); }
Release ==
    /\ pc = "release"
    /\ txLog' = Append(txLog, "release")
    /\ pool' = [pool EXCEPT !.session = @ - 1]
    /\ pending' = <<>>
    /\ pc' = "done"
    /\ UNCHANGED <<caught, raised, snap, fnWrites>>
    /\ UNCHANGED <<whereVars, updateVars, dbVars, aggVars, conVars, regVars, rtVars>>

NextTxn ==
    \/ StartSession
    \/ FnInsertOne
    \/ FnUpdateOne
    \/ FnDeleteOne
    \/ FnSessionQuery
    \/ FnReturns
    \/ FnRaises
    \/ Commit
    \/ Rollback
    \/ Release
SpecTxn == InitTxn /\ [][NextTxn]_vars

\* C1: when the work function raises, withTransaction calls rollback and then
\* release exactly once, never commit, and raises the work function's own
\* failure to its caller.
C1_RollbackReleaseReraise ==
    (pc = "done" /\ caught = "work") =>
        /\ txLog = <<"startSession", "rollback", "release">>
        /\ raised = "work"

\* C2: when the work function made one successful facade write and then
\* raised, and the session was rolled back, the collection holds the rows it
\* held when the transaction started.
C2_WriteNotObservable ==
    (pc = "done" /\ fnWrites = 1 /\ caught = "work" /\ raised = "work") =>
        store.rows = snap

\* C3: when withTransaction has ended, no transaction connection is still
\* checked out, and a connection that was checked out was released exactly
\* once.
C3_ConnectionReleased ==
    pc = "done" =>
        /\ pool.session = 0
        /\ raised # "connect" => Count(txLog, "release") = 1

(***************************************************************************)
(* aggregate (aggregate/aggregate.ts).  The server is taken to read the    *)
(* double-quoted collection name as an identifier.                         *)
(***************************************************************************)
\* the string name, or '$' + name when dollar = 1
Text(dollar, name) == [t |-> "text", n |-> dollar, items |-> <<Entry(name, Undefined)>>]
\* s.replace(/^\$/, '')
StripDollar(s) == s.items[1].k
\* a value is truthy in an if (stage.$x) test
StageHas(stage, k) == IsTruthy(Get(stage, k)) \/ Get(stage, k).t = "text"

NoStages ==
    [w |-> [clause |-> EmptyClause, params |-> <<>>, threw |-> FALSE],
     sortOn |-> FALSE, sort |-> <<>>, group |-> Null, project |-> Null,
     limit |-> 0, skip |-> 0]

\* the tests of one turn of the stage loop, each on what the one before left
WithMatch(stage, acc, d) ==
    IF StageHas(stage, "$match")
    THEN [acc EXCEPT !.w = buildWhereClause(Get(stage, "$match"), d)]
    ELSE acc
WithSort(stage, acc) ==
    IF StageHas(stage, "$sort")
    THEN [acc EXCEPT !.sortOn = TRUE, !.sort = SortFields(Get(stage, "$sort"))]
    ELSE acc
WithGroup(stage, acc) ==
    IF StageHas(stage, "$group") THEN [acc EXCEPT !.group = Get(stage, "$group")] ELSE acc
WithProject(stage, acc) ==
    IF StageHas(stage, "$project") THEN [acc EXCEPT !.project = Get(stage, "$project")] ELSE acc
WithLimit(stage, acc) ==
    IF StageHas(stage, "$limit") THEN [acc EXCEPT !.limit = Get(stage, "$limit").n] ELSE acc
WithSkip(stage, acc) ==
    IF StageHas(stage, "$skip") THEN [acc EXCEPT !.skip = Get(stage, "$skip").n] ELSE acc

\* one turn of the loop over the pipeline that collects the SQL clauses
ParseStage(stage, acc, d) ==
    WithSkip(stage, WithLimit(stage, WithProject(stage, WithGroup(stage,
        WithSort(stage, WithMatch(stage, acc, d))))))

RECURSIVE ParseStages(_, _, _, _)
ParseStages(pl, i, acc, d) ==
    IF i > Len(pl) \/ acc.w.threw THEN acc
    ELSE ParseStages(pl, i + 1, ParseStage(pl[i], acc, d), d)

\* the server accepts the statement: "ORDER BY " needs a key, and MySQL
\* takes no OFFSET without a LIMIT
AggAccepted(q, sortOn, d) ==
    /\ q.hasWhere => /\ WellFormed(q.where)
                     /\ Len(q.params) >= NPh(q.where)
    /\ sortOn => q.sort # <<>>
    /\ (d # "postgres" /\ q.skip > 0) => q.limit > 0

\* for (const key in projectStage) if (projectStage[key]) projected[key] = doc[key]
Project(doc, p) ==
    [f \in Fields |-> IF IsTruthy(Get(p, f)) THEN doc[f] ELSE Undefined]

RECURSIVE Unwind_arraysOnly(_, _)
\* a variant that drops the documents whose field holds no array
Unwind_arraysOnly(docs, path) ==
    IF docs = <<>> THEN <<>>
    ELSE LET doc == Head(docs)
             v == PathValue(doc, path)
         IN (IF IsArray(v)
             THEN [i \in 1..Len(v.items) |-> [doc EXCEPT ![path] = v.items[i].v]]
             ELSE <<>>) \o Unwind_arraysOnly(Tail(docs), path)

RECURSIVE Unwind(_, _)
\* one $unwind stage over the documents
Unwind(docs, path) ==
    IF docs = <<>> THEN <<>>
    ELSE LET doc == Head(docs)
             v == PathValue(doc, path)
         IN (IF IsArray(v)
             THEN [i \in 1..Len(v.items) |-> [doc EXCEPT ![path] = v.items[i].v]]
             ELSE <<doc>>) \o Unwind(Tail(docs), path)

RECURSIVE UnwindAll(_, _, _)
\* the second loop over the pipeline: every $unwind stage, in pipeline order
UnwindAll(docs, pl, i) ==
    IF i > Len(pl) THEN docs
    ELSE IF StageHas(pl[i], "$unwind")
         THEN UnwindAll(Unwind(docs, StripDollar(Get(pl[i], "$unwind"))), pl, i + 1)
         ELSE UnwindAll(docs, pl, i + 1)

ProjectAll(docs, p) == [i \in 1..Len(docs) |-> Project(docs[i], p)]

\* data->>'name' of a row: the field as text, NULL when absent
TextOf(doc, name) ==
    IF IsSqlNull(PathValue(doc, name)) THEN Null ELSE Str(<<PathValue(doc, name)>>)

\* the accumulators of a group stage: Object.keys(groupStage) but '_id'
AccumFields(g) == SelectSeq(g.items, LAMBDA e : e.k # "_id")
\* the accumulator an expression selects, "" when it emits no SQL
AccumKind(expr) ==
    IF ~(expr.t \in {"obj", "arr"}) THEN ""
    ELSE IF StageHas(expr, "$sum") THEN "$sum"
    ELSE IF StageHas(expr, "$avg") THEN "$avg"
    ELSE IF StageHas(expr, "$min") THEN "$min"
    ELSE IF StageHas(expr, "$max") THEN "$max"
    ELSE ""
AccumField(expr) == Get(expr, AccumKind(expr)).items[1].k

RECURSIVE SumOf(_, _)
SumOf(rs, f) ==
    IF rs = <<>> THEN 0
    ELSE (IF PathValue(Head(rs), f).t = "num" THEN PathValue(Head(rs), f).n ELSE 0)
         + SumOf(Tail(rs), f)
NonNull(rs, f) == SelectSeq(rs, LAMBDA r : ~IsSqlNull(PathValue(r, f)))
\* CAST(data->>'f' AS NUMERIC) succeeds on every row of the group
Castable(rs, f) == \A i \in 1..Len(rs) : PathValue(rs[i], f).t \in {"num", "undef", "null"}

\* one accumulator over the rows of a group
Accumulate(kind, f, rs) ==
    LET some == NonNull(rs, f)
        asc == OrderBy(some, <<[k |-> f, dir |-> "ASC"]>>, "postgres")
    IN IF some = <<>> THEN Null
       ELSE CASE kind = "$sum" -> Num(SumOf(some, f))
              [] kind = "$avg" -> [t |-> "ratio", n |-> SumOf(some, f),
                                   items |-> <<Entry("/", Num(Len(some)))>>]
              [] kind = "$min" -> TextOf(asc[1], f)
              [] kind = "$max" -> TextOf(asc[Len(asc)], f)

\* the distinct group keys of the rows, in order of first appearance
RECURSIVE KeysOf(_, _, _)
KeysOf(rs, gid, seen) ==
    IF rs = <<>> THEN seen
    ELSE LET k == TextOf(Head(rs), gid)
         IN KeysOf(Tail(rs), gid,
                   IF \E i \in 1..Len(seen) : seen[i] = k THEN seen ELSE Append(seen, k))

\* the orders in which the server can return the groups: the ORDER BY order
\* when there is one, any order when there is none
GroupOrders(hit, gid, sort, d) ==
    LET ks == KeysOf(IF sort = <<>> THEN hit ELSE OrderBy(hit, sort, d), gid, <<>>)
        n == Len(ks)
    IN IF sort # <<>> THEN {ks}
       ELSE {[i \in 1..n |-> ks[p[i]]] :
                p \in {q \in [1..n -> 1..n] : \A i, j \in 1..n : q[i] = q[j] => i = j}}

GroupRow(k, hit, gid, accs) ==
    LET members == SelectSeq(hit, LAMBDA r : TextOf(r, gid) = k)
    IN [_id |-> k,
        accs |-> [i \in 1..Len(accs) |->
                    Entry(accs[i].k,
                          Accumulate(AccumKind(accs[i].v), AccumField(accs[i].v), members))]]

\* groupStage._id as a field name ("" when it names no field)
GroupId(g) ==
    IF Get(g, "_id").t = "text" /\ Get(g, "_id").n = 0 THEN StripDollar(Get(g, "_id")) ELSE ""

\* LIMIT and OFFSET over the groups
GroupPage(ks, q) ==
    SubSeq(ks, Min(q.skip, Len(ks)) + 1,
           IF q.limit > 0 THEN Min(Len(ks), q.skip + q.limit) ELSE Len(ks))
GroupRows(ks, hit, gid, accs) == [i \in 1..Len(ks) |-> GroupRow(ks[i], hit, gid, accs)]

\* ORDER BY of aggregate: data->>'k' for postgres, the MySQL form otherwise
AggSortForms(sort, d) ==
    [i \in 1..Len(sort) |-> IF d = "postgres" THEN "postgres" ELSE "mysql"]
\* the default SELECT of aggregate
AggStmt(q, d) == Stmt("SELECT", q.hasWhere, q.where, AggSortForms(q.sort, d))
\* the grouped SELECT: data->>'...' for the group key, in the select list and
\* in GROUP BY, and for the field of every accumulator
GroupStmt(q, accs, d) ==
    Stmt("SELECT", q.hasWhere, q.where,
         <<"postgres", "postgres">>
            \o [i \in 1..Len(SelectSeq(accs, LAMBDA e : AccumKind(e.v) # "")) |-> "postgres"]
            \o AggSortForms(q.sort, d))

\* the grouped SELECT over the rows hit that pass the WHERE clause
groupSelect(st, q, gid, accs, hit, d) ==
    IF /\ \A i \in 1..Len(st.sort) : st.sort[i].k = gid
       /\ \A i \in 1..Len(accs) :
             /\ AccumKind(accs[i].v) # ""
             /\ AccumKind(accs[i].v) \in {"$sum", "$avg"}
                   => Castable(hit, AccumField(accs[i].v))
    THEN {Got("none", GroupRows(GroupPage(ks, q), hit, gid, accs), 0, 0,
              <<GroupStmt(q, accs, d)>>) :
            ks \in GroupOrders(hit, gid, st.sort, d)}
    ELSE {Got("QUERY", <<>>, 0, 0, <<GroupStmt(q, accs, d)>>)}

\* the $group branch: one SELECT ... GROUP BY, its rows returned as they are.
\* The statement is written with the PostgreSQL operator ->> whatever the
\* dialect; MySQL rejects its path argument.
groupBranch(db, st, q, d) ==
    IF db.exists /\ d = "postgres" /\ AggAccepted(q, st.sortOn, d)
    THEN groupSelect(st, q, GroupId(st.group), AccumFields(st.group),
                     RunSelect(db.rows, [q EXCEPT !.sort = <<>>, !.limit = 0, !.skip = 0], d), d)
    ELSE {Got("QUERY", <<>>, 0, 0, <<GroupStmt(q, AccumFields(st.group), d)>>)}

\* the stages run in JavaScript on the decoded documents: the projection of
\* the last $project stage, then every $unwind stage
postStages(docs, pl, st) ==
    UnwindAll(IF st.project = Null THEN docs ELSE ProjectAll(docs, st.project), pl, 1)

\* the default branch: the SELECT, then the stages run in JavaScript
defaultBranch(db, pl, st, q, d) ==
    IF ~db.exists \/ ~AggAccepted(q, st.sortOn, d)
    THEN {Got("QUERY", <<>>, 0, 0, <<AggStmt(q, d)>>)}
    ELSE {Got("none", postStages(RunSelect(db.rows, q, d), pl, st), 0, 0,
              <<AggStmt(q, d)>>)}

\* aggregate from the parsed stages st on
aggregateParsed(db, pl, st, d) ==
    IF st.w.threw THEN {Got("TypeError", <<>>, 0, 0, <<>>)}
    ELSE IF st.group # Null
         THEN groupBranch(db, st, Select(Truthy(st.w.clause), st.w.clause, st.w.params,
                                         st.sort, st.limit, st.skip), d)
         ELSE defaultBranch(db, pl, st, Select(Truthy(st.w.clause), st.w.clause, st.w.params,
                                               st.sort, st.limit, st.skip), d)

\* the outcomes of aggregate(driver, collection, pipeline) on the database db
aggregate(db, pl, d) == aggregateParsed(db, pl, ParseStages(pl, 1, NoStages, d), d)

\* ---------------------------------------------------------------------------
\* SpecAggregate: one call of aggregate on a collection and a pipeline
\* ---------------------------------------------------------------------------
AggDocs ==
    {[id |-> Num(1), age |-> Num(1), roles |-> Arr(<<Num(1), Num(2)>>)],
     [id |-> Num(2), age |-> Num(2), roles |-> Undefined],
     [id |-> Num(3), age |-> Num(10), roles |-> Arr(<<Arr(<<>>), Arr(<<Num(3)>>)>>)]}
AggStores ==
    {NoTable} \cup
    {[exists |-> TRUE, rows |-> rs, autoInc |-> Len(rs)] :
        rs \in UNION {[1..n -> AggDocs] : n \in 0..MaxRows}}
Stages ==
    {F1("$unwind", Text(1, "roles")),
     F1("$project", F1("id", Num(1))),
     F1("$match", F1("age", F1("$gt", Num(1)))),
     F1("$match", F1("id", F1("$gt", Num(2)))),
     F1("$sort", F1("age", Num(-1))),
     F1("$limit", Num(1)),
     F1("$skip", Num(1)),
     F1("$group", F2("_id", Text(0, "age"), "total", F1("$sum", Text(0, "id"))))}
Pipelines == UNION {[1..n -> Stages] : n \in 0..MaxStages}

InitAggregate ==
    /\ dialect \in Dialects
    /\ store \in AggStores
    /\ call = NoCall
    /\ ret = Got("none", <<>>, 0, 0, <<>>)
    /\ pipeline \in Pipelines
    /\ aggOut = Got("none", <<>>, 0, 0, <<>>)
    /\ apc = "input"
    /\ IdleWhere
    /\ IdleUpdate
    /\ IdleTx
    /\ IdleMany
    /\ IdleReg
    /\ IdleRound

Aggregate ==
    /\ apc = "input"
    /\ aggOut' \in aggregate(store, pipeline, dialect)
    /\ apc' = "done"
    /\ UNCHANGED <<pipeline, whereVars, updateVars, dbVars, txVars, conVars, regVars, rtVars>>

NextAggregate == Aggregate
SpecAggregate == InitAggregate /\ [][NextAggregate]_vars

HasStage(pl, k) == \E i \in 1..Len(pl) : StageHas(pl[i], k)
\* the pipeline without its $project and $unwind stages
SqlStages(pl) ==
    SelectSeq(pl, LAMBDA s : ~StageHas(s, "$project") /\ ~StageHas(s, "$unwind"))
\* the documents the SELECT of the pipeline returns, decoded
Decoded == (CHOOSE g \in aggregate(store, SqlStages(pipeline), dialect) : TRUE).docs

RECURSIVE FoldPost(_, _, _)
\* the $project and $unwind stages applied one after the other, left to right
FoldPost(docs, pl, i) ==
    IF i > Len(pl) THEN docs
    ELSE IF StageHas(pl[i], "$project")
         THEN FoldPost(ProjectAll(docs, Get(pl[i], "$project")), pl, i + 1)
    ELSE IF StageHas(pl[i], "$unwind")
         THEN FoldPost(Unwind(docs, StripDollar(Get(pl[i], "$unwind"))), pl, i + 1)
    ELSE FoldPost(docs, pl, i + 1)

\* C10: for a pipeline without a group stage, aggregate returns the decoded
\* documents with the project and unwind stages applied in pipeline order,
\* left to right.
C10_PostStagesInPipelineOrder ==
    (apc = "done" /\ ~HasStage(pipeline, "$group") /\ aggOut.err = "none") =>
        aggOut.docs = FoldPost(Decoded, pipeline, 1)

\* the number of documents an unwind on P makes of doc
Fanout(doc, P) == IF IsArray(PathValue(doc, P)) THEN Len(PathValue(doc, P).items) ELSE 1
RECURSIVE Before(_, _, _)
\* the number of output documents made of docs[1..i-1]
Before(docs, i, P) == IF i <= 1 THEN 0 ELSE Before(docs, i - 1, P) + Fanout(docs[i - 1], P)
\* the input document that output position k comes from
Origin(docs, k, P) ==
    CHOOSE i \in 1..Len(docs) : Before(docs, i, P) < k /\ k <= Before(docs, i + 1, P)
\* what the unwind of P is said to return: position by position
UnwoundBy(docs, P) ==
    [k \in 1..Before(docs, Len(docs) + 1, P) |->
        LET i == Origin(docs, k, P)
        IN IF IsArray(PathValue(docs[i], P))
           THEN [docs[i] EXCEPT ![P] = Elems(PathValue(docs[i], P))[k - Before(docs, i, P)]]
           ELSE docs[i]]
RECURSIVE UnwoundChain(_, _, _)
\* every unwind stage of the pipeline, each on the output of the one before
UnwoundChain(docs, pl, i) ==
    IF i > Len(pl) THEN docs
    ELSE IF StageHas(pl[i], "$unwind")
         THEN UnwoundChain(UnwoundBy(docs, StripDollar(Get(pl[i], "$unwind"))), pl, i + 1)
         ELSE UnwoundChain(docs, pl, i + 1)

\* C11: an unwind stage on P turns a document whose P holds n elements into
\* n documents, in element order, each with P replaced by the element, and
\* passes the other documents through; input order is kept and each further
\* unwind stage works on the output of the one before.
C11_UnwindFansOut ==
    (/\ apc = "done" /\ aggOut.err = "none"
     /\ ~HasStage(pipeline, "$group") /\ ~HasStage(pipeline, "$project")) =>
        aggOut.docs = UnwoundChain(Decoded, pipeline, 1)

\* C11 witness: two unwind stages in a row made of { roles: [1, 2] } two
\* documents, passed on unchanged by the second stage, and of
\* { roles: [[], [3]] } one document, the empty array yielding none
C11_Witness ==
    /\ apc = "done" /\ aggOut.err = "none"
    /\ pipeline = <<F1("$unwind", Text(1, "roles")), F1("$unwind", Text(1, "roles"))>>
    /\ Len(store.rows) = 2
    /\ store.rows[1].roles = Arr(<<Num(1), Num(2)>>)
    /\ store.rows[2].roles = Arr(<<Arr(<<>>), Arr(<<Num(3)>>)>>)
    /\ [i \in 1..Len(aggOut.docs) |-> aggOut.docs[i].roles] = <<Num(1), Num(2), Num(3)>>
    /\ [i \in 1..Len(aggOut.docs) |-> aggOut.docs[i].id] = <<Num(1), Num(1), Num(3)>>

\* the pipeline of the specification's example, with the operands of the model
MatchSortLimit ==
    <<F1("$match", F1("age", F1("$gt", Num(1)))), F1("$sort", F1("age", Num(-1))),
      F1("$limit", Num(1))>>
Times(seq, x) == Cardinality({i \in 1..Len(seq) : seq[i] = x})
\* out is the first n of the documents of rows with age > k, by descending age
IsTopByAge(out, rows, k, n) ==
    LET matching == SelectSeq(rows, LAMBDA r : r.age.t = "num" /\ r.age.n > k)
    IN /\ Len(out) = Min(n, Len(matching))
       /\ \A i \in 1..Len(out) : Times(out, out[i]) <= Times(matching, out[i])
       /\ \A i, j \in 1..Len(out) : i < j => out[i].age.n >= out[j].age.n
       /\ \A m \in 1..Len(matching) :
             Times(out, matching[m]) < Times(matching, matching[m])
                => \A i \in 1..Len(out) : out[i].age.n >= matching[m].age.n

\* C12: the pipeline [match age > k, sort by age descending, limit n] returns
\* the first n documents, in descending order of age, among the stored
\* documents whose age is above k.
C12_MatchSortLimit ==
    (apc = "done" /\ store.exists /\ pipeline = MatchSortLimit) =>
        /\ aggOut.err = "none"
        /\ IsTopByAge(aggOut.docs, store.rows, 1, 1)

\* the failures built by `new StratisQLError(message, code, ...)`, named by
\* their code: the drivers' query and connect, and the facade's constructor.
\* Every other failure of the model is the value some other code threw.
StratisQLErrors == {"QUERY", "CONNECT", "CONFIG"}

\* C17: callers see one error kind: a failure raised by a facade verb, or by
\* withTransaction for a reason other than the work function's own failure,
\* is a StratisQLError carrying a code and a type.
C17_OneErrorKind ==
    /\ ret.err # "none" => ret.err \in StratisQLErrors
    /\ raised \notin {"none", "work"} => raised \in StratisQLErrors

\* the path-extraction forms a statement uses: those of its WHERE clause,
\* chosen by parseKey, and those of its other field references
PathForms(tokens) == {tokens[i].form : i \in {j \in 1..Len(tokens) : tokens[j].s = "path"}}
FormsOf(stmt) ==
    (IF stmt.hasWhere THEN PathForms(Tokens(stmt.where)) ELSE {})
        \cup {stmt.refs[i] : i \in 1..Len(stmt.refs)}
FormsIn(stmts) == UNION {FormsOf(stmts[i]) : i \in 1..Len(stmts)}

RowsWithId(rows, docs) ==
    IF docs = <<>> THEN 0
    ELSE Cardinality({i \in 1..Len(rows) : IdIs(rows[i], docs[1]["id"])})

\* C25: updateOne and deleteOne change at most one stored row, and the
\* modifiedCount / deletedCount they report is the number of rows changed,
\* also when several stored documents share one id.
C25_OneRowChanged ==
    [][/\ (call'.op = "updateOne" /\ ret'.err = "none") =>
             /\ RowsWithId(store.rows, ret'.docs) <= 1
             /\ ret'.m = RowsWithId(store.rows, ret'.docs)
       /\ (call'.op = "deleteOne" /\ ret'.err = "none") =>
             /\ Len(store.rows) - Len(store'.rows) <= 1
             /\ ret'.n = Len(store.rows) - Len(store'.rows)]_vars

\* the document passes the compiled predicate w
PassesWhere(doc, w) ==
    /\ ~w.threw
    /\ Truthy(w.clause) => Eval3(w.clause, w.params, 0, doc) = "T"
\* the document satisfies the predicate of the match stage
PassesMatch(doc, stage, d) == PassesWhere(doc, buildWhereClause(Get(stage, "$match"), d))

\* C26: every document aggregate returns for a pipeline without a group
\* stage satisfies the predicate of every match stage of the pipeline.  The
\* predicates are read on the returned documents, so the pipelines taken are
\* those that do not project the fields away.
C26_EveryMatchHolds ==
    (/\ apc = "done" /\ aggOut.err = "none"
     /\ ~HasStage(pipeline, "$group") /\ ~HasStage(pipeline, "$project")) =>
        \A i \in 1..Len(aggOut.docs) : \A j \in 1..Len(pipeline) :
            StageHas(pipeline[j], "$match") => PassesMatch(aggOut.docs[i], pipeline[j], dialect)

(***************************************************************************)
(* SpecMany: several callers of the facade at once on one collection.  A   *)
(* verb awaits each statement it sends, so another caller's statement may  *)
(* run between any two of them: a step is one awaited statement with the   *)
(* synchronous code that follows it.  The table exists throughout, so the  *)
(* tableExists check of updateMany and deleteMany always passes and is     *)
(* taken together with the select that follows it.                         *)
(***************************************************************************)
\* const doc = docs[i]: the loop takes the document read by the select,
\* whatever the row holds by now
loopDoc_reread(docs, i, rows) ==
    IF \E j \in 1..Len(rows) : IdIs(rows[j], docs[i]["id"])
    THEN rows[CHOOSE j \in 1..Len(rows) : IdIs(rows[j], docs[i]["id"])]
    ELSE docs[i]
loopDoc(docs, i, rows) == docs[i]

\* one UPDATE of the loop of updateMany, or the UPDATE of updateOne
updateRow(rows, doc, update) == UpdateWhereId(rows, Updated(doc, update), doc["id"])
\* one DELETE of the loop of deleteMany
deleteRow(rows, doc) == DeleteWhereId(rows, doc["id"])

Caller(op, f, u) ==
    [op |-> op, f |-> f, u |-> u, docs |-> <<>>, i |-> 1, n |-> 0, pc |-> "start"]
UpdAll == Caller("updateMany", Obj(<<>>), F1("$inc", F1("age", Num(1))))
DelAll == Caller("deleteMany", Obj(<<>>), Obj(<<>>))
IncTwo == Caller("updateOne", F1("id", Num(2)), F1("$inc", F1("age", Num(2))))
Reader == Caller("find", Obj(<<>>), Obj(<<>>))
\* the calls that run at once, one caller each
LineUps ==
    {<<UpdAll, DelAll, IncTwo, Reader>>, <<IncTwo, IncTwo, Reader>>,
     <<UpdAll, UpdAll, Reader>>, <<DelAll, IncTwo, Reader>>}
Callers == 1..Len(procs)
ManyRows ==
    <<[id |-> Num(1), age |-> Num(0), roles |-> Arr(<<>>)],
      [id |-> Num(2), age |-> Num(0), roles |-> Arr(<<>>)]>>

InitMany ==
    /\ dialect \in Dialects
    /\ store = [exists |-> TRUE, rows |-> ManyRows, autoInc |-> 2]
    /\ call = NoCall
    /\ ret = Got("none", <<>>, 0, 0, <<>>)
    /\ procs \in LineUps
    /\ observed = <<>>
    /\ IdleWhere
    /\ IdleUpdate
    /\ IdleTx
    /\ IdleAgg
    /\ IdleReg
    /\ IdleRound

\* the options updateOne hands to find; updateMany and deleteMany hand none
selectOptions(op) == IF op = "updateOne" THEN [NoOptions EXCEPT !.limit = 1] ELSE NoOptions

\* const docs = await find(...) of updateOne, updateMany and deleteMany
SelectRows(p) ==
    /\ procs[p].pc = "start"
    /\ procs[p].op # "find"
    /\ procs' = [procs EXCEPT ![p].docs = find(store, procs[p].f, selectOptions(procs[p].op),
                                               dialect).got.docs,
                              ![p].pc = IF find(store, procs[p].f, selectOptions(procs[p].op),
                                                dialect).got.docs = <<>>
                                        THEN "done" ELSE "loop"]
    /\ UNCHANGED <<observed, whereVars, updateVars, dbVars, txVars, aggVars, regVars, rtVars>>

Advance(p) ==
    procs' = [procs EXCEPT ![p].i = @ + 1, ![p].n = @ + 1,
                           ![p].pc = IF procs[p].i = Len(procs[p].docs) THEN "done" ELSE "loop"]

\* await driver.query(UPDATE ...) of updateOne, and of one turn of updateMany
UpdateRow(p) ==
    /\ procs[p].pc = "loop"
    /\ procs[p].op \in {"updateOne", "updateMany"}
    /\ store' = [store EXCEPT !.rows =
                    updateRow(@, loopDoc(procs[p].docs, procs[p].i, store.rows), procs[p].u)]
    /\ Advance(p)
    /\ UNCHANGED <<call, ret, observed, whereVars, updateVars, txVars, aggVars, regVars, rtVars>>

\* await driver.query(DELETE ...) of one turn of deleteMany
DeleteRow(p) ==
    /\ procs[p].pc = "loop"
    /\ procs[p].op = "deleteMany"
    /\ store' = [store EXCEPT !.rows =
                    deleteRow(@, loopDoc(procs[p].docs, procs[p].i, store.rows))]
    /\ Advance(p)
    /\ UNCHANGED <<call, ret, observed, whereVars, updateVars, txVars, aggVars, regVars, rtVars>>

\* a caller that only reads: find(c, {}), up to MaxReads times
ReaderFind(p) ==
    /\ procs[p].pc = "start"
    /\ procs[p].op = "find"
    /\ observed' = Append(observed, find(store, procs[p].f, NoOptions, dialect).got.docs)
    /\ procs' = [procs EXCEPT ![p].n = @ + 1,
                              ![p].pc = IF procs[p].n + 1 = MaxReads THEN "done" ELSE "start"]
    /\ UNCHANGED <<whereVars, updateVars, dbVars, txVars, aggVars, regVars, rtVars>>

NextMany ==
    \E p \in Callers :
        \/ SelectRows(p)
        \/ UpdateRow(p)
        \/ DeleteRow(p)
        \/ ReaderFind(p)

SpecMany == InitMany /\ [][NextMany]_vars

Ages(rows) == [j \in 1..Len(rows) |-> rows[j].age.n]
Ids(rows) == [j \in 1..Len(rows) |-> rows[j].id.n]
AllDone == \A p \in Callers : procs[p].pc = "done"

\* C15: updateMany and deleteMany are not atomic as a whole.  Each statement
\* of their loop is a step of its own, and it rewrites (or deletes) the row
\* whose id is that of the document read by the initial select, with the
\* update applied to the document as it was read, whatever other callers
\* have seen or written since.
C15_LoopFollowsTheSelect ==
    [][\A p \in Callers :
          (procs[p].pc = "loop" /\ procs'[p].i = procs[p].i + 1) =>
              /\ procs'[p].docs = procs[p].docs
              /\ procs[p].op \in {"updateOne", "updateMany"} =>
                    store'.rows = UpdateWhereId(store.rows,
                                     Updated(procs[p].docs[procs[p].i], procs[p].u),
                                     procs[p].docs[procs[p].i].id)
              /\ procs[p].op = "deleteMany" =>
                    store'.rows = DeleteWhereId(store.rows, procs[p].docs[procs[p].i].id)]_vars
\* C15: both interleavings in one run of updateMany, deleteMany, updateOne and
\* a reader.  The first read saw row 1 rewritten by updateMany (age 1) and
\* row 2 not yet (age 2, written by updateOne after updateMany's select); the
\* second saw row 1 deleted and row 2 not yet, row 2 holding the age computed
\* from updateMany's select (0 + 1), not from updateOne's write; in the end
\* deleteMany deleted row 2 as well.
C15_Witness ==
    /\ AllDone
    /\ Len(procs) = 4
    /\ procs[1].op = "updateMany" /\ procs[2].op = "deleteMany"
    /\ procs[3].op = "updateOne" /\ procs[4].op = "find"
    /\ procs[1].n = 2 /\ procs[2].n = 2 /\ procs[3].n = 1
    /\ Len(observed) = 2
    /\ Ids(observed[1]) = <<1, 2>> /\ Ages(observed[1]) = <<1, 2>>
    /\ Ids(observed[2]) = <<2>> /\ Ages(observed[2]) = <<1>>
    /\ store.rows = <<>>

\* C16: when two updateOne calls, each with $inc {age: 2}, run on the same
\* stored document and nobody else writes, the age ends at start + 4.
TwoIncrements ==
    /\ Cardinality({p \in Callers : procs[p].op = "updateOne"}) = 2
    /\ \A p \in Callers : procs[p].op \in {"updateOne", "find"}
C16_NoIncrementLost ==
    (TwoIncrements /\ AllDone) => Ages(store.rows) = <<0, 4>>

(***************************************************************************)
(* SpecSchema: createCollection with and without a schema, then the verbs  *)
(* of the facade that write documents.  The validator is compiled by a     *)
(* JSON-schema library outside the repository; a schema here bounds the    *)
(* age of a document, { properties: { age: { maximum: m } } }.             *)
(***************************************************************************)
AgeAtMost(m) == F1("properties", F1("age", F1("maximum", Num(m))))
Maximum(schema) == Get(Get(Get(schema, "properties"), "age"), "maximum")
\* validateDoc(validator, doc) of the validation library
validateDoc(validator, doc) ==
    doc["age"].t = "num" => doc["age"].n <= Maximum(validator).n
\* validateCollectionDoc: no validator registered accepts every document
validateCollectionDoc(registry, doc) ==
    IF registry = Null THEN TRUE ELSE validateDoc(registry, doc)

\* CREATE TABLE IF NOT EXISTS
createTable(db) == IF db.exists THEN db ELSE [exists |-> TRUE, rows |-> <<>>, autoInc |-> 0]
\* createCollection: the table, then collectionSchemas.set if a schema is given
createCollection(db, registry, schema) ==
    [db |-> createTable(db), registry |-> IF schema = Undefined THEN registry ELSE schema]

\* insertMany: one INSERT with a row per document; with no document the
\* statement ends at VALUES and the server rejects it
insertMany(db, docs, d) ==
    IF docs = <<>>
    THEN Out(createTable(db), Got("QUERY", <<>>, 0, 0, <<St("INSERT", FALSE, EmptyClause)>>))
    ELSE Out([createTable(db) EXCEPT !.rows = @ \o docs, !.autoInc = @ + Len(docs)],
             Got("none", docs, Len(docs), 0, <<St("INSERT", FALSE, EmptyClause)>>))

RECURSIVE UpdateLoop(_, _, _, _)
\* the for loop of updateMany from docs[i] on, with no limit option
UpdateLoop(rows, docs, i, update) ==
    IF i > Len(docs) THEN rows
    ELSE UpdateLoop(updateRow(rows, docs[i], update), docs, i + 1, update)
\* updateMany from the result r of its find on
updateManyFound(db, r, update) ==
    IF r.got.err # "none" THEN r
    ELSE Out([db EXCEPT !.rows = UpdateLoop(@, r.got.docs, 1, update)],
             Got("none", r.got.docs, Len(r.got.docs), Len(r.got.docs),
                 r.got.stmts \o [i \in 1..Len(r.got.docs) |-> St("UPDATE", TRUE, EmptyClause)]))
updateMany(db, f, update, d) ==
    IF ~db.exists THEN Out(db, Got("none", <<>>, 0, 0, <<>>))
    ELSE updateManyFound(db, find(db, f, NoOptions, d), update)

SchemaDocs ==
    {[id |-> Num(i), age |-> Num(a), roles |-> Arr(<<>>)] : i \in 1..2, a \in 1..2}
SchemaFilters == {Obj(<<>>), F1("id", Num(1))}
SchemaUpdates == {F1("$set", F1("age", Num(2))), F1("$set", F1("age", Num(1)))}
Schemas == {Undefined, AgeAtMost(1)}

InitSchema ==
    /\ dialect \in Dialects
    /\ store = NoTable
    /\ call = NoCall
    /\ ret = Got("none", <<>>, 0, 0, <<>>)
    /\ validators = Null
    /\ IdleWhere
    /\ IdleUpdate
    /\ IdleTx
    /\ IdleAgg
    /\ IdleMany
    /\ IdleRound

Wrote(op, f, r) ==
    /\ store' = r.db
    /\ call' = Call(op, f, NoOptions)
    /\ ret' = r.got
    /\ UNCHANGED <<validators, whereVars, updateVars, txVars, aggVars, conVars, rtVars>>

CreateCollection ==
    \E schema \in Schemas :
        /\ store' = createCollection(store, validators, schema).db
        /\ validators' = createCollection(store, validators, schema).registry
        /\ call' = Call("createCollection", Obj(<<>>), NoOptions)
        /\ ret' = Got("none", <<>>, 0, 0, <<>>)
        /\ UNCHANGED <<whereVars, updateVars, txVars, aggVars, conVars, rtVars>>

SchemaInsertOne ==
    \E doc \in SchemaDocs :
        /\ store.autoInc < MaxInserts
        /\ Wrote("insertOne", Obj(<<>>), insertOne(store, doc, dialect))

SchemaInsertMany ==
    \E docs \in SeqsUpTo(SchemaDocs, MaxInserts) :
        /\ store.autoInc + Len(docs) <= MaxInserts
        /\ Wrote("insertMany", Obj(<<>>), insertMany(store, docs, dialect))

SchemaUpdateOne ==
    \E f \in SchemaFilters : \E u \in SchemaUpdates :
        Wrote("updateOne", f, updateOne(store, f, u, dialect))

SchemaUpdateMany ==
    \E f \in SchemaFilters : \E u \in SchemaUpdates :
        Wrote("updateMany", f, updateMany(store, f, u, dialect))

NextSchema ==
    \/ CreateCollection
    \/ SchemaInsertOne
    \/ SchemaInsertMany
    \/ SchemaUpdateOne
    \/ SchemaUpdateMany

SpecSchema == InitSchema /\ [][NextSchema]_vars

RoundIds == {Num(1), Num(2), NumStr(1), Arr(<<Num(1)>>), F1("a", Num(1))}
RoundDocs == {[id |-> i, age |-> Num(a), roles |-> Arr(<<>>)] : i \in RoundIds, a \in 1..2}
HoldsId(rows, id) == \E j \in 1..Len(rows) : rows[j]["id"] = id
\* the collections before the insert: no two documents with one id
RoundStores ==
    {NoTable} \cup
    {[exists |-> TRUE, rows |-> rows, autoInc |-> Len(rows)] :
        rows \in {r \in SeqsUpTo(RoundDocs, MaxRows) :
                     \A i, j \in 1..Len(r) : i # j => r[i]["id"] # r[j]["id"]}}

InitRound ==
    /\ dialect \in Dialects
    /\ store \in RoundStores
    /\ call = NoCall
    /\ ret = Got("none", <<>>, 0, 0, <<>>)
    /\ inserted = NoDoc
    /\ IdleWhere
    /\ IdleUpdate
    /\ IdleTx
    /\ IdleAgg
    /\ IdleMany
    /\ IdleReg

RoundInsertOne ==
    \E doc \in RoundDocs :
        /\ call.op = "none"
        /\ ~HoldsId(store.rows, doc["id"])
        /\ store' = insertOne(store, doc, dialect).db
        /\ ret' = insertOne(store, doc, dialect).got
        /\ call' = Call("insertOne", Obj(<<>>), NoOptions)
        /\ inserted' = doc
        /\ UNCHANGED <<whereVars, updateVars, txVars, aggVars, conVars, regVars>>

RoundFindOne ==
    /\ call.op = "insertOne"
    /\ store' = store
    /\ ret' = findOne(store, F1("id", inserted["id"]), NoOptions, dialect).got
    /\ call' = Call("findOne", F1("id", inserted["id"]), NoOptions)
    /\ UNCHANGED <<inserted, whereVars, updateVars, txVars, aggVars, conVars, regVars>>

NextRound ==
    \/ RoundInsertOne
    \/ RoundFindOne

SpecRound == InitRound /\ [][NextRound]_vars

\* C20: round trip.  After insertOne(c, d) into a collection holding no
\* other document with the id of d, findOne(c, {id: d.id}) returns a
\* document deep-equal to d.
C20_RoundTrip ==
    call.op = "findOne" => (ret.err = "none" /\ ret.docs = <<inserted>>)

(***************************************************************************)
(* SpecDrop: insertOne, insertMany and find running at once with           *)
(* dropCollection on the same collection.  A step is one awaited           *)
(* statement: the tableExists check, CREATE TABLE IF NOT EXISTS, the row   *)
(* statement, DROP TABLE IF EXISTS.  A caller whose row statement meets no *)
(* table ends "failed": the driver raised the query failure.               *)
(***************************************************************************)
DropRow(i) == [id |-> Num(i), age |-> Num(1), roles |-> Arr(<<>>)]
InsOne == [Caller("insertOne", Obj(<<>>), Obj(<<>>)) EXCEPT !.docs = <<DropRow(1)>>]
InsMany == [Caller("insertMany", Obj(<<>>), Obj(<<>>)) EXCEPT !.docs = <<DropRow(2), DropRow(3)>>]
Finder == Caller("find", Obj(<<>>), Obj(<<>>))
Dropper == Caller("dropCollection", Obj(<<>>), Obj(<<>>))
DropLineUps ==
    {<<InsOne, Dropper>>, <<InsMany, Dropper>>, <<Finder, Dropper>>,
     <<InsOne, Finder, Dropper>>, <<InsOne, InsMany, Dropper>>}
DropStores == {NoTable, [exists |-> TRUE, rows |-> <<DropRow(4)>>, autoInc |-> 1]}
\* DROP TABLE IF EXISTS
dropTable(db) == NoTable

InitDrop ==
    /\ dialect \in Dialects
    /\ store \in DropStores
    /\ call = NoCall
    /\ ret = Got("none", <<>>, 0, 0, <<>>)
    /\ procs \in DropLineUps
    /\ observed = <<>>
    /\ IdleWhere
    /\ IdleUpdate
    /\ IdleTx
    /\ IdleAgg
    /\ IdleReg
    /\ IdleRound

\* where a verb goes after await driver.tableExists(collection)
afterTableExists(op, exists) ==
    IF op \in {"insertOne", "insertMany"} THEN (IF exists THEN "row" ELSE "create")
    ELSE IF exists THEN "row" ELSE "done"

\* await driver.tableExists(collection), the first statement of every verb
TableExists(p) ==
    /\ procs[p].pc = "start"
    /\ procs[p].op # "dropCollection"
    /\ procs' = [procs EXCEPT ![p].pc = afterTableExists(procs[p].op, store.exists)]
    /\ UNCHANGED <<observed, whereVars, updateVars, dbVars, txVars, aggVars, regVars, rtVars>>

\* await driver.createTable(collection, doc) of insertOne and insertMany
CreateTable(p) ==
    /\ procs[p].pc = "create"
    /\ store' = createTable(store)
    /\ procs' = [procs EXCEPT ![p].pc = "row"]
    /\ UNCHANGED <<call, ret, observed, whereVars, updateVars, txVars, aggVars, regVars, rtVars>>

\* await driver.query(INSERT ...) of insertOne and insertMany
InsertRows(p) ==
    /\ procs[p].pc = "row"
    /\ procs[p].op \in {"insertOne", "insertMany"}
    /\ store' = IF store.exists
                THEN [store EXCEPT !.rows = @ \o procs[p].docs,
                                   !.autoInc = @ + Len(procs[p].docs)]
                ELSE store
    /\ procs' = [procs EXCEPT ![p].pc = IF store.exists THEN "done" ELSE "failed",
                              ![p].n = IF store.exists THEN Len(procs[p].docs) ELSE 0]
    /\ UNCHANGED <<call, ret, observed, whereVars, updateVars, txVars, aggVars, regVars, rtVars>>

\* await driver.query(SELECT ...) of find
SelectAll(p) ==
    /\ procs[p].pc = "row"
    /\ procs[p].op = "find"
    /\ procs' = [procs EXCEPT ![p].pc = IF store.exists THEN "done" ELSE "failed",
                              ![p].docs = IF store.exists
                                          THEN find(store, procs[p].f, NoOptions, dialect).got.docs
                                          ELSE <<>>]
    /\ UNCHANGED <<observed, whereVars, updateVars, dbVars, txVars, aggVars, regVars, rtVars>>

\* dropCollection: await driver.dropTable(name), then collectionSchemas.delete
DropCollection(p) ==
    /\ procs[p].pc = "start"
    /\ procs[p].op = "dropCollection"
    /\ store' = dropTable(store)
    /\ validators' = Null
    /\ procs' = [procs EXCEPT ![p].pc = "done"]
    /\ UNCHANGED <<call, ret, observed, whereVars, updateVars, txVars, aggVars, rtVars>>

NextDrop ==
    \E p \in Callers :
        \/ TableExists(p)
        \/ CreateTable(p)
        \/ InsertRows(p)
        \/ SelectAll(p)
        \/ DropCollection(p)

SpecDrop == InitDrop /\ [][NextDrop]_vars

\* C21: the table exists before any row operation: every INSERT and SELECT a
\* verb issues, also with dropCollection running at the same time, runs
\* against a table that exists at that moment; a find that meets no table at
\* its check returns without a row statement.
C21_TableExistsAtRowStatement ==
    [][\A p \in Callers :
          /\ (procs[p].pc = "row" /\ procs'[p].pc # "row") => store.exists
          /\ (procs[p].pc = "start" /\ procs[p].op = "find" /\ ~store.exists)
                => procs'[p].pc \in {"start", "done"}]_vars

(***************************************************************************)
(* SpecConnect: one client calling connect() of its driver, again and      *)
(* again.  The pool hands out at most PoolLimit connections; a request     *)
(* made when all are checked out waits in the pool's queue (neither driver *)
(* sets a timeout), so the attempt neither resolves nor rejects until a    *)
(* connection is given back.  procs[1].n is the retries variable of the    *)
(* Postgres loop, procs[1].i the attempts made by the current call.        *)
(***************************************************************************)
Retries == 3
\* let retries = 3 of PostgresDriver.connect; MySQLDriver.connect tries once
retriesOf(d) == IF d = "postgres" THEN Retries ELSE 1

\* connect() keeps the connection it was given: neither driver releases it
keepConnection(p0) == [p0 EXCEPT !.connect = @ + 1]

InitConnect ==
    /\ dialect \in Dialects
    /\ store = NoTable
    /\ call = NoCall
    /\ ret = Got("none", <<>>, 0, 0, <<>>)
    /\ procs = <<Caller("connect", Obj(<<>>), Obj(<<>>))>>
    /\ observed = <<>>
    /\ IdleWhere
    /\ IdleUpdate
    /\ IdleTx
    /\ IdleAgg
    /\ IdleReg
    /\ IdleRound

\* the caller calls connect(): let retries = 3
CallConnect ==
    /\ procs[1].pc \in {"start", "done", "failed"}
    /\ procs' = [procs EXCEPT ![1].pc = "try", ![1].n = retriesOf(dialect), ![1].i = 0]
    /\ ret' = Got("none", <<>>, 0, 0, <<>>)
    /\ UNCHANGED <<store, call, observed, whereVars, updateVars, txVars, aggVars, regVars, rtVars>>

\* await this.pool.connect() / getConnection() resolved: return
AttemptSucceeds ==
    /\ procs[1].pc = "try"
    /\ CheckedOut < PoolLimit
    /\ pool' = keepConnection(pool)
    /\ procs' = [procs EXCEPT ![1].pc = "done", ![1].i = @ + 1]
    /\ UNCHANGED <<pc, pending, txLog, caught, raised, snap, fnWrites>>
    /\ UNCHANGED <<observed, whereVars, updateVars, dbVars, aggVars, regVars, rtVars>>

\* it rejected: retries--, and the StratisQLError when none is left
AttemptFails ==
    /\ procs[1].pc = "try"
    /\ CheckedOut < PoolLimit
    /\ procs' = [procs EXCEPT ![1].pc = IF procs[1].n - 1 = 0 THEN "failed" ELSE "wait",
                              ![1].n = @ - 1, ![1].i = @ + 1]
    /\ ret' = IF procs[1].n - 1 = 0 THEN Got("CONNECT", <<>>, 0, 0, <<>>) ELSE ret
    /\ UNCHANGED <<store, call, observed, whereVars, updateVars, txVars, aggVars, regVars, rtVars>>

\* await new Promise(res => setTimeout(res, 1000)), then the loop test
WaitAndRetry ==
    /\ procs[1].pc = "wait"
    /\ procs' = [procs EXCEPT ![1].pc = "try"]
    /\ UNCHANGED <<observed, whereVars, updateVars, dbVars, txVars, aggVars, regVars, rtVars>>

NextConnect ==
    \/ CallConnect
    \/ AttemptSucceeds
    \/ AttemptFails
    \/ WaitAndRetry

SpecConnect == InitConnect /\ [][NextConnect]_vars
\* every promise that can settle does, and the timer fires
SpecConnectFair == SpecConnect /\ WF_vars(NextConnect)

\* the bounded retry of PostgresDriver.connect: at most Retries attempts, the
\* call returns at the first attempt that succeeds, and raises the
\* StratisQLError of the connect failure after Retries failed attempts
RetryBounded ==
    dialect = "postgres" =>
        /\ procs[1].i <= Retries
        /\ procs[1].pc = "done" => procs[1].i = (Retries - procs[1].n) + 1
        /\ procs[1].pc = "failed" => (procs[1].i = Retries /\ ret.err = "CONNECT")
        /\ procs[1].pc \in {"try", "wait"} => procs[1].i = Retries - procs[1].n

\* C22: PostgresDriver.connect makes at most 3 attempts, returns after the
\* first successful one, raises the StratisQLError of code PG_CONNECT after 3
\* consecutive failures, and terminates in every case.
C22_ConnectRetriesAndEnds ==
    /\ []RetryBounded
    /\ (dialect = "postgres" /\ procs[1].pc = "try") ~> (procs[1].pc \in {"done", "failed"})

\* C27: connect() does not keep a pooled connection: after it returned, as
\* many connections are checked out of the pool as before the call.
C27_ConnectKeepsNoConnection ==
    procs[1].pc = "done" => pool.connect = 0

(***************************************************************************)
(* SpecPaging: a caller paging through an unchanging collection: the first *)
(* findWithCursor call has no cursor value, each later one has the         *)
(* nextCursor of the call before it, until nextCursor is undefined.  The   *)
(* pages are kept in observed.                                             *)
(***************************************************************************)
PagingAges == {1, 2, 10}
PagingDocs == {[id |-> Num(i), age |-> Num(a), roles |-> Arr(<<>>)] : i \in 1..MaxRows, a \in PagingAges}
\* collections whose ids are distinct and whose ages are distinct
PagingStores ==
    {[exists |-> TRUE, rows |-> rs, autoInc |-> Len(rs)] :
        rs \in {r \in SeqsUpTo(PagingDocs, MaxRows) :
                   \A i, j \in 1..Len(r) :
                       i # j => (r[i]["id"] # r[j]["id"] /\ r[i]["age"] # r[j]["age"])}}
PagingFilters == {Obj(<<>>), F1("age", F1("$lt", Num(2)))}
PagingOptions ==
    [cursorField : {"id", "age"}, cursorValue : {Undefined}, limit : 1..MaxPage,
     reverse : BOOLEAN, count : {FALSE}]

InitPaging ==
    /\ dialect \in Dialects
    /\ store \in PagingStores
    /\ call = NoCall
    /\ ret = Got("none", <<>>, 0, 0, <<>>)
    /\ procs = <<>>
    /\ observed = <<>>
    /\ IdleWhere
    /\ IdleUpdate
    /\ IdleTx
    /\ IdleAgg
    /\ IdleReg
    /\ IdleRound

\* the caller takes the result r of the call and keeps its page
PageReturned(r) ==
    /\ store' = r.db
    /\ ret' = r.got
    /\ observed' = Append(observed, r.got.docs)
\* one call of the paging loop, with the caller's filter f and options o
PageCall(f, o) ==
    /\ call' = CursorCall(f, o)
    /\ PageReturned(findWithCursor(store, f, o, dialect))
    /\ UNCHANGED <<procs, whereVars, updateVars, txVars, aggVars, regVars, rtVars>>

FirstPage ==
    \E f \in PagingFilters : \E o \in PagingOptions :
        /\ call.op = "none"
        /\ PageCall(f, o)

\* the options of the call before, with cursorValue: nextCursor
FollowingOptions ==
    [cursorField |-> call.cursorField, cursorValue |-> ret.nextCursor, limit |-> call.limit,
     reverse |-> call.reverse, count |-> call.count]

FollowingPage ==
    /\ call.op = "findWithCursor"
    /\ ret.err = "none"
    /\ ret.nextCursor # Undefined
    /\ PageCall(call.filter, FollowingOptions)

NextPaging ==
    \/ FirstPage
    \/ FollowingPage

SpecPaging == InitPaging /\ [][NextPaging]_vars

RECURSIVE Flatten(_, _)
Flatten(pages, i) == IF i > Len(pages) THEN <<>> ELSE pages[i] \o Flatten(pages, i + 1)
\* the documents of the collection that satisfy the caller's filter
Matching == find(store, call.filter, NoOptions, dialect).got.docs
PagedToTheEnd == call.op = "findWithCursor" /\ (ret.err # "none" \/ ret.nextCursor = Undefined)
\* out holds every document of all exactly once, in the order of the field k
IsAllInOrder(out, all, k, reverse) ==
    /\ Len(out) = Len(all)
    /\ \A m \in 1..Len(all) : Times(out, all[m]) = 1
    /\ \A i, j \in 1..Len(out) :
          i < j => IF reverse THEN out[i][k].n > out[j][k].n ELSE out[i][k].n < out[j][k].n

\* the loop ends: every call but the last returns a document not returned
\* before, so there are no more calls than documents, and one
PagingEnds == Len(observed) <= Len(store.rows) + 1

\* C23: paging to the end of an unchanging collection with distinct
\* cursor-field values terminates (within one call per document, and one),
\* and the concatenated pages hold every document matching the filter
\* exactly once, in cursor order.
C23_PagingToTheEnd ==
    /\ PagingEnds
    /\ PagedToTheEnd =>
          /\ ret.err = "none"
          /\ IsAllInOrder(Flatten(observed, 1), Matching, call.cursorField, call.reverse)

\* C24: every document findWithCursor returns satisfies the caller's filter,
\* also when the filter constrains the cursor field and a cursor value is
\* given.
C24_PageSatisfiesFilter ==
    (call.op = "findWithCursor" /\ ret.err = "none") =>
        \A i \in 1..Len(ret.docs) : Times(Matching, ret.docs[i]) = 1

====
